---- MODULE Spec2Model ----
(***************************************************************************)
(* AgentOracle: the monitoring loop, the per-agent checkAndDecide pipeline *)
(* and the suspicious-count store it drives.                               *)
(*                                                                         *)
(* Every `await` of checkAndDecide is one step of the pipeline: it is a    *)
(* suspension point at which a signal handler or an HTTP route of the same *)
(* process can run, and at which the awaited call can reject.  A rejected  *)
(* call jumps to the catch block of checkAndDecide.                        *)
(***************************************************************************)
EXTENDS Integers, Sequences, FiniteSets, TLC

\* ---------------------------------------------------------------- bounds
Agents == {1, 2}

\* verdicts makeHealthDecision returns for an agent under Spec
MaxVerdicts == 7

\* verdicts makeHealthDecision returns for an agent under SpecCycle and
\* SpecSignal
CycleVerdicts == 1

\* calls rejected after a verdict in one run
MaxFaults == 1

\* LLM operations called on their own in one run under SpecCache
MaxCalls == 2

\* the faucet is followed for this many requests
MaxTransfers == 2

\* the subgraph is followed for this many HealthUpdated events
MaxEvents == 2

\* steps of the clock, in TTLs, in one run under SpecCache
MaxJumps == 1

\* the agent that is registered for monitoring under Spec
Tracked == CHOOSE a \in Agents : \A b \in Agents : a <= b

\* agent ids posted to /agents/unregister
UnregisterIds == {Tracked}

\* latencies a probe can measure
ResponseTimes == {40, 90}

\* ------------------------------------------------------ program constants
\* threshold passed to incrementSuspiciousCount
Threshold == 6

Verdicts == {"healthy", "suspicious", "critical"}

FailureTypes == {"none", "error"}

\* HealthDecision values makeHealthDecision can return; failureType is read
\* only in the suspicious branch
Decisions ==
    { d \in [decision : Verdicts, failureType : FailureTypes] :
        d.decision # "suspicious" => d.failureType = "none" }

\* a reply that parses as JSON and is not a HealthDecision: JSON.parse(...)
\* as T checks nothing
OffSchema == [decision |-> "unhealthy", failureType |-> "none"]

\* what makeHealthDecision can give back to checkAndDecide
Replies == Decisions \cup {OffSchema}

NoDecision == [decision |-> "none", failureType |-> "none"]

\* PingResult values pingEndpoint can return
\* HTTP status codes a request can be answered with
Statuses == {199, 200, 299, 300, 500}

\* null, as the data of a probe without a response or the card not resolved
NoBody == "null"

\* response bodies as axios parses them: an empty one and a JSON object
Bodies == {"", "body"}

\* what can happen to an HTTP request: a response arrives, the transport
\* fails, or the timeout of 10000 ms runs out
HttpOutcomes ==
    [kind : {"response"}, status : Statuses, data : Bodies]
    \cup {[kind |-> k, status |-> 0, data |-> NoBody] :
             k \in {"error", "timeout"}}

\* no request has been made
NoOutcome == [kind |-> "none", status |-> 0, data |-> NoBody]

\* variant: the request resolves on every response
validateStatus_Any(status) == TRUE

\* the default validateStatus of axios: a response with another status
\* rejects the request
validateStatus(status) == status >= 200 /\ status < 300

\* await axios.get(url, { timeout: 10000 }) resolves
Resolves(o) == o.kind = "response" /\ validateStatus(o.status)

\* pingEndpoint: the result for the outcome o of its request and the
\* elapsed time t
pingEndpoint(o, t) ==
    IF Resolves(o)
    THEN [success |-> o.status >= 200 /\ o.status < 300,
          responseTimeMs |-> t, data |-> o.data]
    ELSE [success |-> FALSE, responseTimeMs |-> t, data |-> NoBody]

\* the values pingEndpoint returns
PingResults ==
    {pingEndpoint(o, t) : o \in HttpOutcomes, t \in ResponseTimes}

NoPing == [success |-> FALSE, responseTimeMs |-> 0, data |-> NoBody]

\* variant: the public gateways are tried before the configured one
Gateways_PublicFirst(primary) ==
    <<"gateway.pinata.cloud", "cloudflare-ipfs.com", "dweb.link">>
    \o (IF primary THEN <<"PINATA_GATEWAY_URL">> ELSE <<>>)

\* the list gateways of fetchAgentCard, after .filter(Boolean); primary:
\* process.env.PINATA_GATEWAY_URL is set
Gateways(primary) ==
    (IF primary THEN <<"PINATA_GATEWAY_URL">> ELSE <<>>)
    \o <<"gateway.pinata.cloud", "cloudflare-ipfs.com", "dweb.link">>

\* fetchAgentCard is not running and its last result was consumed
NoCard ==
    [pc |-> "idle", gateways |-> <<>>, i |-> 0, contacted |-> <<>>,
     answers |-> <<>>, cause |-> "none", result |-> NoBody]

\* const Agent_CACHE_TTL_SECONDS = 5 * 60
Agent_CACHE_TTL_SECONDS == 300

\* callGroqStructured(..., maxRetries = 3)
maxRetries == 3

\* the four operations of the LLM component, by the prefix of their keys
Ops == {"response", "health", "narrative", "onboard"}

\* MonitoredAgent.load(id) == null
NoMonitoredAgent ==
    [present |-> FALSE, healthScore |-> 0, consecutiveFailures |-> 0,
     totalChecks |-> 0, successfulChecks |-> 0, lastCheckTimestamp |-> 0,
     createdAt |-> 0, updatedAt |-> 0]

\* getHealthData has not been read in this cycle
NoHealth == [read |-> FALSE, isMonitored |-> FALSE]

\* let endpoint has not been reached in this cycle
NoEndpoint == "undefined"

\* knownEndpoint || svc?.endpoint || ''
Endpoints == {"", "http://agent"}

\* no LLM operation has been called yet
NoCall ==
    [pc |-> "idle", op |-> "none", key |-> <<>>, caller |-> 0,
     probe |-> FALSE, attempt |-> 0, result |-> NoDecision, requests |-> 0,
     writes |-> 0, origin |-> "none", value |-> NoDecision,
     made |-> 0, waits |-> <<>>]

\* getMonitoredAgents is not running
NoResponse == [kind |-> "none", agents |-> <<>>]

\* an absent document of suspicious_counts
NoRow ==
    [present |-> FALSE, consecutiveSuspicious |-> 0, totalSuspicious |-> 0,
     lastSlashedAt |-> FALSE]

\* $slice: -20 of pushResponseHistory
HistorySlice == 20

\* an absent document of agents
NoAgent == [present |-> FALSE, responseHistory |-> <<>>]

\* the responseHistory k pushes of an earlier run of the process left; an
\* entry is kept as its timestamp and its number in the order of the pushes
\* into its document
Earlier(k) == [i \in 1..k |-> [timestamp |-> 0, n |-> i]]

VARIABLES
    proc,               \* "running", "closing" (disconnectDB awaited), "exited"
    registered,         \* agents the indexer and the contract scan can list
    loopPc,             \* position of monitoringLoop
    monitored,          \* the list getMonitoredAgents returned for this cycle
    subgraph,           \* local of getMonitoredAgents: the indexer's answer
    idx,                \* iterations of the for loop started in this cycle
    called,             \* agents checkAndDecide was called for in this cycle
    failed,             \* agents whose call ended in the catch block, this cycle
    pc,                 \* per agent: position of checkAndDecide
    health,             \* per agent: the local health of checkAndDecide
    endpoint,           \* per agent: the local endpoint of checkAndDecide
    pingResult,         \* per agent: local of checkAndDecide
    decision,           \* per agent: local of checkAndDecide
    count,              \* per agent: local of incrementSuspiciousCount
    agents,             \* collection agents
    healthEvents,       \* collection healthEvents: rows per agent
    suspicious_counts,  \* collection suspicious_counts
    txs,                \* per agent: writeContract calls of the current pass
    stepEvents,         \* per agent: rows logHealthEvent inserted in this pass
    run,                \* per agent: suspicious verdicts since the last healthy
                        \*   verdict, reportSuspicious and deleteAgentData
    nhRun,              \* per agent: non-healthy verdicts since the last healthy
                        \*   verdict and reportSuspicious
    stepRun,            \* per agent: run as of this pass's verdict
    stepNh,             \* per agent: nhRun as of this pass's verdict
    clean,              \* per agent: no call of its passes rejected after a
                        \*   verdict, and it was never unregistered
    budget,             \* per agent: verdicts left in this run
    faults,             \* calls rejected after a verdict so far
    now,                \* the clock new Date() and Date.now() read, in seconds
    AgentCache,         \* collection AgentCache
    llm,                \* the LLM operation in progress, or the last one
    lastSet,            \* per key: the last setCachedAgent that succeeded,
                        \*   until the key is deleted by deleteAgentData
    calls,              \* LLM operations called on their own so far
    gets,               \* the GET requests pingEndpoint has issued in the
                        \* call in progress
    http,               \* the outcome of the request pingEndpoint made last
    HealthUpdated,      \* subgraph store: the HealthUpdated entities
    MonitoredAgent,     \* subgraph store: the MonitoredAgent entities
    handled,            \* the events passed to handleHealthUpdated so far
    faucet_claims,      \* collection faucet_claims: the addresses recorded
    transfers,          \* the token transfers POST /faucet has submitted
    mined,              \* per agent: how many of the cycle's transactions
                        \* the chain has included in a block
    writes,             \* per agent: the store and chain writes of the cycle
                        \* in progress, in the order they were made
    card,               \* the fetchAgentCard call in progress, or what the
                        \*   last one returned: the gateways contacted and
                        \*   the status each answered with (0: none)
    chain,              \* the contract's mapping _healthData, per token id
    scan,               \* getMonitoredAgentsFromContract in progress, or the
                        \*   last one that returned
    trends,             \* getResponseTrends called on its own: the stored
                        \*   history it read and what it returned
    directory           \* collection agents, per key: the fields of the
                        \*   document that upsertAgent sets

loopVars == <<registered, loopPc, monitored, subgraph, idx, called>>
localVars == <<health, endpoint, pingResult, decision, count>>
storeVars == <<agents, healthEvents, suspicious_counts>>
stepVars == <<txs, stepEvents, stepRun, stepNh, mined, writes, mined>>
histVars == <<run, nhRun, clean>>
llmVars == <<now, AgentCache, llm, lastSet, calls>>
fetchVars == <<http, card, gets>>
routeVars == <<faucet_claims, transfers>>
graphVars == <<HealthUpdated, MonitoredAgent, handled>>
sideVars == <<chain, scan, trends, directory>>
vars == <<proc, registered, loopPc, monitored, subgraph, idx, called, failed,
          pc,
          health, endpoint, pingResult, decision, count,
          agents, healthEvents, suspicious_counts, txs, stepEvents, writes, mined,
          run, nhRun, stepRun, stepNh, clean, budget, faults,
          now, AgentCache, llm, lastSet, calls, http, card, gets,
          faucet_claims, transfers, HealthUpdated, MonitoredAgent, handled,
          chain, scan, trends, directory>>

\* ------------------------------------------------------- HealthMonitor
\* the token ids the contract is followed for: the tracked agents, the two
\* ends of the scanned range and the first id beyond it
ChainIds == Agents \cup {0, 19, 20}

\* for (let id = 0; id < 20; id++)
ScanLimit == 20

\* uint256 public minStakeAmount = 1000 * 10**18, in whole tokens
minStakeAmount == 1000

\* uint256 public slashThreshold = 6; uint256 public slashPercentage = 15
slashThreshold == 6
slashPercentage == 15

\* the failures in a row updateHealth is followed to
MaxConsecutive == 7

\* the stake addStake is followed to
MaxStake == 2000

\* the stakes an owner offers to registerForMonitoring
StakeAmounts == {500, 1000}

\* an entry of _healthData nobody wrote: the zero value of the struct
NoHealthData ==
    [isMonitored |-> FALSE, endpoint |-> "", stakedAmount |-> 0,
     consecutiveFailures |-> 0]

\* no scan was started yet
NoScan ==
    [pc |-> "idle", id |-> 0, agents |-> <<>>, rejected |-> {},
     stable |-> TRUE]


\* -------------------------------------------------- JavaScript numbers
\* a number is an IEEE 754 binary64: zero, or m * 2^e with m an integer of
\* 53 bits, kept as its bits from the most significant (always 1) down
Precision == 53

Zero == [m |-> <<>>, e |-> 0]

RECURSIVE Pow2(_)
Pow2(k) == IF k = 0 THEN 1 ELSE 2 * Pow2(k - 1)

\* the number of bits of a positive integer
RECURSIVE BitLen(_)
BitLen(n) == IF n = 0 THEN 0 ELSE 1 + BitLen(n \div 2)

\* the L bits of n
BitsOf(n, L) == [i \in 1..L |-> (n \div Pow2(L - i)) % 2]

\* the least z with a * 2^z >= b
RECURSIVE Shift(_, _)
Shift(a, b) == IF a >= b THEN 0 ELSE 1 + Shift(2 * a, b)

\* the long division goes on in digits of LimbBits bits: the remainder
\* after k more digits
LimbBits == 13

RECURSIVE RemAfter(_, _, _)
RemAfter(rem, b, k) ==
    IF k = 0 THEN rem ELSE (RemAfter(rem, b, k - 1) * Pow2(LimbBits)) % b

\* the next number above m * 2^e
Succ(m, e) ==
    IF \A i \in 1..Precision : m[i] = 1
    THEN [m |-> [i \in 1..Precision |-> IF i = 1 THEN 1 ELSE 0], e |-> e + 1]
    ELSE LET j == CHOOSE j \in 1..Precision :
                      m[j] = 0 /\ \A k \in (j + 1)..Precision : m[k] = 1
         IN  [m |-> [i \in 1..Precision |->
                        IF i < j THEN m[i] ELSE IF i = j THEN 1 ELSE 0],
              e |-> e]

\* round to nearest, ties to even: guard is the first bit dropped, sticky
\* tells whether any bit after it is set
Round(m, e, guard, sticky) ==
    IF guard = 1 /\ (sticky \/ m[Precision] = 1)
    THEN Succ(m, e)
    ELSE [m |-> m, e |-> e]

\* a / b for integers a >= 0 and b > 0 that are numbers themselves
Divide(a, b) ==
    IF a = 0 THEN Zero
    ELSE LET z == Shift(a, b)
             q0 == (a * Pow2(z)) \div b
             r0 == (a * Pow2(z)) % b
             L == BitLen(q0)
             \* the k-th digit after the point, and its i-th bit overall
             digit(k) == (RemAfter(r0, b, k - 1) * Pow2(LimbBits)) \div b
             frac(i) ==
                 (digit((i - 1) \div LimbBits + 1)
                     \div Pow2(LimbBits - 1 - ((i - 1) % LimbBits))) % 2
             m == [i \in 1..Precision |->
                      IF i <= L THEN BitsOf(q0, L)[i] ELSE frac(i - L)]
             g == Precision - L + 1
             k == (g - 1) \div LimbBits + 1
         IN  Round(m, L - Precision - z, frac(g),
                   \/ digit(k) % Pow2(LimbBits - 1 - ((g - 1) % LimbBits)) # 0
                   \/ RemAfter(r0, b, k) # 0)

\* the bits of m whose weights are 13k .. 13k + 12, as an integer
Limb(m, k) ==
    LET bit(w) == IF w < Precision THEN m[Precision - w] ELSE 0
        RECURSIVE upto(_)
        upto(j) == IF j < 0 THEN 0
                   ELSE bit(LimbBits * k + j) * Pow2(j) + upto(j - 1)
    IN  upto(LimbBits - 1)

\* the digits of x.m * y.m from the least significant up: column c adds
\* the products of the limbs whose ranks add up to c, and the carry
RECURSIVE Columns(_, _, _, _)
Columns(x, y, c, carry) ==
    LET limbs == (Precision + LimbBits - 1) \div LimbBits
        col == IF c > 2 * limbs - 2 THEN 0
               ELSE LET terms == {a \in 0..(limbs - 1) : c - a \in 0..(limbs - 1)}
                        RECURSIVE add(_)
                        add(S) == IF S = {} THEN 0
                                  ELSE LET a == CHOOSE a \in S : TRUE
                                       IN  Limb(x.m, a) * Limb(y.m, c - a)
                                           + add(S \ {a})
                    IN  add(terms)
        s == col + carry
    IN  IF c > 2 * limbs - 1 THEN <<>>
        ELSE <<s % Pow2(LimbBits)>> \o Columns(x, y, c + 1, s \div Pow2(LimbBits))

\* x * y
Times(x, y) ==
    IF x = Zero \/ y = Zero THEN Zero
    ELSE LET digits == Columns(x, y, 0, 0)
             bit(w) == (digits[w \div LimbBits + 1] \div Pow2(w % LimbBits)) % 2
             n == IF bit(2 * Precision - 1) = 1 THEN 2 * Precision
                  ELSE 2 * Precision - 1
             P(i) == bit(n - i)
         IN  Round([i \in 1..Precision |-> P(i)],
                   x.e + y.e + (n - Precision),
                   P(Precision + 1),
                   \E i \in (Precision + 2)..n : P(i) = 1)

\* x < y for numbers that are not negative
Less(x, y) ==
    IF y = Zero THEN FALSE
    ELSE IF x = Zero THEN TRUE
    ELSE \/ x.e < y.e
         \/ /\ x.e = y.e
            /\ \E k \in 1..Precision :
                  /\ x.m[k] < y.m[k]
                  /\ \A j \in 1..(k - 1) : x.m[j] = y.m[j]

\* --------------------------------------------------- getResponseTrends
\* the longest stored history getResponseTrends is given
MaxHistory == 6

\* the entries of responseHistory: a probe that failed on its timeout and
\* probes that succeeded
Entries ==
    {[responseTimeMs |-> 900, success |-> FALSE],
     [responseTimeMs |-> 10, success |-> TRUE],
     [responseTimeMs |-> 20, success |-> TRUE]}

\* a longer history: five quick probes and three slow ones, with failures
\* in between
SlowingDown ==
    LET ok(t) == [responseTimeMs |-> t, success |-> TRUE]
        ko == [responseTimeMs |-> 900, success |-> FALSE]
    IN  <<ok(10), ok(12), ko, ok(11), ok(9), ok(10), ko, ok(100), ok(105),
          ok(110)>>

RECURSIVE Histories(_)
Histories(k) ==
    IF k = 0 THEN {<<>>}
    ELSE LET shorter == Histories(k - 1)
         IN  shorter \cup {Append(h, e) : h \in {s \in shorter : Len(s) = k - 1}, e \in Entries}

\* history.filter(h => h.success).map(h => h.responseTimeMs)
RECURSIVE SuccessfulTimes(_)
SuccessfulTimes(history) ==
    IF history = <<>> THEN <<>>
    ELSE LET h == history[Len(history)]
             before == SuccessfulTimes(SubSeq(history, 1, Len(history) - 1))
         IN  IF h.success THEN Append(before, h.responseTimeMs) ELSE before

\* times.reduce((a, b) => a + b, 0): sums of integers this small are exact
RECURSIVE Sum(_)
Sum(times) ==
    IF times = <<>> THEN 0 ELSE times[1] + Sum(SubSeq(times, 2, Len(times)))

\* times.reduce((sum, t) => sum + Math.pow(t - avgTime, 2), 0) / times.length
\* as the fraction it is over the real numbers, with t - avgTime taken as
\* (n * t - S) / n; the rounding of pow, of the sum and of Math.sqrt is not
\* followed, and stdDev is kept as the variance it is the root of
RECURSIVE SquaredDeviations(_, _, _)
SquaredDeviations(times, n, S) ==
    IF times = <<>> THEN 0
    ELSE (n * times[1] - S) * (n * times[1] - S)
         + SquaredDeviations(SubSeq(times, 2, Len(times)), n, S)

variance(times) ==
    LET n == Len(times)
    IN  [num |-> SquaredDeviations(times, n, Sum(times)), den |-> n * n * n]

NoVariance == [num |-> 0, den |-> 1]

\* times.slice(-3) and times.slice(0, -3)
recent(times) ==
    IF Len(times) <= 3 THEN times ELSE SubSeq(times, Len(times) - 2, Len(times))
older(times) ==
    IF Len(times) <= 3 THEN <<>> ELSE SubSeq(times, 1, Len(times) - 3)

\* recentAvg < olderAvg * 0.8 ? 'improving'
\*   : recentAvg > olderAvg * 1.2 ? 'degrading' : 'stable'
\* the literals 0.8 and 1.2 are the numbers nearest to 4/5 and 6/5
recentTrend(times) ==
    LET recentAvg == Divide(Sum(recent(times)), Len(recent(times)))
        olderAvg == Divide(Sum(older(times)), Len(older(times)))
    IN  IF Less(recentAvg, Times(olderAvg, Divide(4, 5))) THEN "improving"
        ELSE IF Less(Times(olderAvg, Divide(6, 5)), recentAvg) THEN "degrading"
        ELSE "stable"

\* variant: every entry is taken as a sample
Samples_All(history) == [i \in DOMAIN history |-> history[i].responseTimeMs]

\* the samples of a history
Samples(history) == SuccessfulTimes(history)

\* getResponseTrends, given agent?.responseHistory || []
getResponseTrends(history) ==
    LET times == Samples(history)
    IN  IF Len(history) < 3
        THEN [avgTime |-> Zero, variance |-> NoVariance, recentTrend |-> "stable"]
        ELSE IF Len(times) = 0
        THEN [avgTime |-> Zero, variance |-> NoVariance, recentTrend |-> "degrading"]
        ELSE [avgTime |-> Divide(Sum(times), Len(times)),
              variance |-> variance(times),
              recentTrend |-> IF Len(older(times)) = 0 THEN "stable"
                              ELSE recentTrend(times)]

\* getResponseTrends was not called
NoTrends ==
    [pc |-> "idle", history |-> <<>>,
     result |-> [avgTime |-> Zero, variance |-> NoVariance, recentTrend |-> "none"]]

\* ------------------------------------------------- the agents' rows
\* the hashes POST /agents/notify is given
TxHashes == {"0xaa"}

\* BigInt.prototype.toString(): the decimal digits of n
RECURSIVE toString(_)
toString(n) ==
    LET digit(d) == <<"0", "1", "2", "3", "4", "5", "6", "7", "8", "9">>[d + 1]
    IN  IF n < 10 THEN digit(n) ELSE toString(n \div 10) \o digit(n % 10)

\* the keys a document of agents is found under in this model
DirKeys == {toString(a) : a \in Agents} \cup TxHashes

\* the fields upsertAgent sets, in a document no upsertAgent wrote yet;
\* stats tells where healthScore, totalChecks and successfulChecks are
\* from: the literals 100, 0, 0 of the notify route ("seed"), or the
\* health data checkAndDecide read ("chain")
NoFields == [isMonitored |-> FALSE, lastDecision |-> "unset", stats |-> "unset"]

\* ------------------------------------------------------------ helpers
\* args of writeContract({functionName: 'updateHealth', args: [...]})
UpdateHealthTx(a, responseTime, success) ==
    [fn |-> "updateHealth", agentId |-> a, responseTime |-> responseTime,
     success |-> success, reason |-> <<>>]

\* `${decision.reason}${failureType !== 'none' ? ` [${failureType}]` : ''}`
SlashReason(d) ==
    IF d.failureType # "none" THEN <<"reason", d.failureType>> ELSE <<"reason">>

\* args of writeContract({functionName: 'reportSuspicious', args: [...]})
ReportSuspiciousTx(a, d) ==
    [fn |-> "reportSuspicious", agentId |-> a, responseTime |-> 0,
     success |-> FALSE, reason |-> SlashReason(d)]

\* getSuspiciousCount: doc?.consecutiveSuspicious || 0
getSuspiciousCount(a) == suspicious_counts[a].consecutiveSuspicious

Reported(a) == \E i \in 1..Len(txs[a]) : txs[a][i].fn = "reportSuspicious"

\* positions of checkAndDecide at which the verdict is known
PostVerdict ==
    {"pushResponseHistory", "upsertAgent", "logHealthEvent", "updateHealth",
     "resetSuspiciousCount", "incrementSuspiciousCount", "markSlashed",
     "reportSuspicious", "getSuspiciousCount"}

Alive == proc # "exited"

\* the process after startAgent: nothing discovered, no call in progress
InitProgram ==
    /\ proc = "running"
    /\ loopPc = "discover"
    /\ monitored = <<>>
    /\ subgraph = NoResponse
    /\ idx = 0
    /\ called = <<>>
    /\ failed = {}
    /\ pc = [a \in Agents |-> "idle"]
    /\ health = [a \in Agents |-> NoHealth]
    /\ endpoint = [a \in Agents |-> NoEndpoint]
    /\ pingResult = [a \in Agents |-> NoPing]
    /\ decision = [a \in Agents |-> NoDecision]
    /\ count = [a \in Agents |-> 0]
    /\ txs = [a \in Agents |-> <<>>]
    /\ stepEvents = [a \in Agents |-> 0]
    /\ writes = [a \in Agents |-> <<>>]
    /\ mined = [a \in Agents |-> 0]
    /\ stepRun = [a \in Agents |-> 0]
    /\ stepNh = [a \in Agents |-> 0]
    /\ clean = [a \in Agents |-> TRUE]
    /\ faults = 0
    /\ llm = NoCall
    /\ calls = 0
    /\ http = NoOutcome
    /\ gets = 0
    /\ card = NoCard
    /\ transfers = <<>>
    /\ HealthUpdated = {}
    /\ MonitoredAgent = [a \in Agents |-> NoMonitoredAgent]
    /\ handled = <<>>
    /\ chain = [id \in ChainIds |-> NoHealthData]
    /\ scan = NoScan
    /\ trends = NoTrends

\* the database connectDB opens, as c suspicious cycles of the tracked agent
\* in an earlier run of the process left it (c = 0: an empty database)
StoreLeftBy(c) ==
    LET kept(a) == a = Tracked /\ c > 0
    IN  /\ agents = [a \in Agents |->
                IF kept(a)
                THEN [present |-> TRUE, responseHistory |-> Earlier(c)]
                ELSE NoAgent]
        /\ healthEvents = [a \in Agents |-> IF kept(a) THEN c ELSE 0]
        /\ suspicious_counts = [a \in Agents |->
                IF kept(a)
                THEN [present |-> TRUE, consecutiveSuspicious |-> c,
                      totalSuspicious |-> c, lastSlashedAt |-> FALSE]
                ELSE NoRow]
        /\ run = [a \in Agents |-> IF kept(a) THEN c ELSE 0]
        /\ nhRun = [a \in Agents |-> IF kept(a) THEN c ELSE 0]
        /\ AgentCache = {}
        /\ lastSet = {}
        /\ directory = [k \in DirKeys |->
                IF k = toString(Tracked) /\ c > 0
                THEN [isMonitored |-> TRUE, lastDecision |-> "suspicious",
                      stats |-> "chain"]
                ELSE NoFields]
        /\ faucet_claims = {}
        /\ now = 0

\* the database connectDB opens, as k healthy cycles of the tracked agent in
\* an earlier run of the process left it
StoreLeftByHealthy(k) ==
    LET kept(a) == a = Tracked /\ k > 0
    IN  /\ agents = [a \in Agents |->
                IF kept(a)
                THEN [present |-> TRUE, responseHistory |-> Earlier(k)]
                ELSE NoAgent]
        /\ healthEvents = [a \in Agents |-> IF kept(a) THEN k ELSE 0]
        /\ suspicious_counts = [a \in Agents |-> NoRow]
        /\ run = [a \in Agents |-> 0]
        /\ nhRun = [a \in Agents |-> 0]
        /\ AgentCache = {}
        /\ lastSet = {}
        /\ directory = [key \in DirKeys |->
                IF key = toString(Tracked) /\ k > 0
                THEN [isMonitored |-> TRUE, lastDecision |-> "healthy",
                      stats |-> "chain"]
                ELSE NoFields]
        /\ faucet_claims = {}
        /\ now = 0

Init ==
    /\ InitProgram
    /\ StoreLeftBy(0)
    /\ registered = {Tracked}
    /\ budget = [a \in Agents |-> MaxVerdicts]

\* ------------------------------------------------- getMonitoredAgents
\* lists without repetition over a set of agent ids
ListsOf(S) ==
    { l \in UNION { [1..n -> S] : n \in 0..Cardinality(S) } :
        \A i, j \in DOMAIN l : i # j => l[i] # l[j] }

\* what the indexer query of getMonitoredAgentsFromSubgraph can come to: the
\* post rejects, the reply lacks data.data.monitoredAgents (throw new
\* Error('Invalid subgraph response')), or the mapped list, empty or not
SubgraphResponses ==
    {[kind |-> "raised", agents |-> <<>>],
     [kind |-> "malformed", agents |-> <<>>]}
    \cup {[kind |-> "list", agents |-> l] : l \in ListsOf(registered)}

\* variant: the contract scan is made whatever the indexer answered
FallsBack_Always(r) == TRUE

\* getMonitoredAgents: the try block returns only a list with length > 0;
\* the catch block and an empty list go on to the contract scan
FallsBack(r) == r.kind # "list" \/ Len(r.agents) = 0

\* await getMonitoredAgentsFromSubgraph(thegraphUrl) resolves or rejects
getMonitoredAgentsFromSubgraph ==
    /\ Alive
    /\ loopPc = "discover"
    /\ \E r \in SubgraphResponses : subgraph' = r
    /\ loopPc' = "subgraphDone"
    /\ UNCHANGED <<sideVars, graphVars, routeVars, fetchVars, llmVars, proc, registered, monitored, idx, called, failed, pc,
                   localVars, storeVars, stepVars, histVars, budget, faults>>

\* if (agents.length > 0) return agents; otherwise fall through
getMonitoredAgents ==
    /\ Alive
    /\ loopPc = "subgraphDone"
    /\ IF FallsBack(subgraph)
       THEN /\ loopPc' = "fallback"
            /\ UNCHANGED <<monitored, subgraph>>
       ELSE /\ loopPc' = "next"
            /\ monitored' = subgraph.agents
            /\ subgraph' = NoResponse
    /\ UNCHANGED <<sideVars, graphVars, routeVars, fetchVars, llmVars, proc, registered, idx, called, failed, pc, localVars,
                   storeVars, stepVars, histVars, budget, faults>>

\* getMonitoredAgentsFromContract: ids in ascending order, each read in its
\* own try/catch, so the scan itself never rejects
getMonitoredAgentsFromContract ==
    /\ Alive
    /\ loopPc = "fallback"
    /\ \E l \in ListsOf(registered) :
          /\ \A i, j \in DOMAIN l : i < j => l[i] < l[j]
          /\ monitored' = l
          /\ loopPc' = "next"
    /\ subgraph' = NoResponse
    /\ UNCHANGED <<sideVars, graphVars, routeVars, fetchVars, llmVars, proc, registered, idx, called, failed, pc, localVars,
                   storeVars, stepVars, histVars, budget, faults>>

\* ----------------------------------------------------- monitoringLoop
\* variant: checkAndDecide is called without await and the loop goes on
StartCheck_NoAwait(a) ==
    /\ Alive
    /\ loopPc = "next"
    /\ idx < Len(monitored)
    /\ monitored[idx + 1] = a
    /\ pc[a] = "idle"
    /\ pc' = [pc EXCEPT ![a] = "getHealthData"]
    /\ idx' = idx + 1
    /\ called' = Append(called, a)
    /\ loopPc' = "next"
    /\ UNCHANGED <<sideVars, graphVars, routeVars, fetchVars, llmVars, proc, registered, monitored, subgraph, failed, localVars, storeVars,
                   stepVars, histVars, budget, faults>>

\* for (...) { await checkAndDecide(...) }: the call, and the loop waits
StartCheck(a) ==
    /\ Alive
    /\ loopPc = "next"
    /\ idx < Len(monitored)
    /\ monitored[idx + 1] = a
    /\ pc[a] = "idle"
    /\ pc' = [pc EXCEPT ![a] = "getHealthData"]
    /\ idx' = idx + 1
    /\ called' = Append(called, a)
    /\ loopPc' = "await"
    /\ UNCHANGED <<sideVars, graphVars, routeVars, fetchVars, llmVars, proc, registered, monitored, subgraph, failed, localVars, storeVars,
                   stepVars, histVars, budget, faults>>

\* variant: checkAndDecide rethrows from its catch block, which ends the
\* for loop in the catch block of monitoringLoop
Return_Rethrow(a) ==
    /\ Alive
    /\ loopPc = "await"
    /\ pc[a] \in {"done", "caught"}
    /\ loopPc' = IF pc[a] = "caught" THEN "sleep" ELSE "next"
    /\ pc' = [pc EXCEPT ![a] = "idle"]
    /\ health' = [health EXCEPT ![a] = NoHealth]
    /\ endpoint' = [endpoint EXCEPT ![a] = NoEndpoint]
    /\ pingResult' = [pingResult EXCEPT ![a] = NoPing]
    /\ decision' = [decision EXCEPT ![a] = NoDecision]
    /\ count' = [count EXCEPT ![a] = 0]
    /\ txs' = [txs EXCEPT ![a] = <<>>]
    /\ stepEvents' = [stepEvents EXCEPT ![a] = 0]
    /\ writes' = [writes EXCEPT ![a] = <<>>]
    /\ mined' = [mined EXCEPT ![a] = 0]
    /\ stepRun' = [stepRun EXCEPT ![a] = 0]
    /\ stepNh' = [stepNh EXCEPT ![a] = 0]
    /\ card' = NoCard
    /\ UNCHANGED <<sideVars, graphVars, routeVars, http, gets, llmVars, proc, registered, monitored, subgraph, idx,
                   called, failed, storeVars, histVars, budget, faults>>

\* checkAndDecide returns (normally, or from its catch block) and the loop
\* goes on with the next element of the list
Return(a) ==
    /\ Alive
    /\ loopPc = "await"
    /\ pc[a] \in {"done", "caught"}
    /\ pc' = [pc EXCEPT ![a] = "idle"]
    /\ loopPc' = "next"
    /\ health' = [health EXCEPT ![a] = NoHealth]
    /\ endpoint' = [endpoint EXCEPT ![a] = NoEndpoint]
    /\ pingResult' = [pingResult EXCEPT ![a] = NoPing]
    /\ decision' = [decision EXCEPT ![a] = NoDecision]
    /\ count' = [count EXCEPT ![a] = 0]
    /\ txs' = [txs EXCEPT ![a] = <<>>]
    /\ stepEvents' = [stepEvents EXCEPT ![a] = 0]
    /\ writes' = [writes EXCEPT ![a] = <<>>]
    /\ mined' = [mined EXCEPT ![a] = 0]
    /\ stepRun' = [stepRun EXCEPT ![a] = 0]
    /\ stepNh' = [stepNh EXCEPT ![a] = 0]
    /\ card' = NoCard
    /\ UNCHANGED <<sideVars, graphVars, routeVars, http, gets, llmVars, proc, registered, monitored, subgraph, idx,
                   called, failed, storeVars, histVars, budget, faults>>

\* the for loop is exhausted: await new Promise(r => setTimeout(r, ...))
EndCycle ==
    /\ Alive
    /\ loopPc = "next"
    /\ idx = Len(monitored)
    /\ loopPc' = "sleep"
    /\ UNCHANGED <<sideVars, graphVars, routeVars, fetchVars, llmVars, proc, registered, monitored, subgraph, idx, called, failed, pc,
                   localVars, storeVars, stepVars, histVars, budget, faults>>

\* variant: the loop is left after the sleep of its first cycle
Wake_Once ==
    /\ Alive
    /\ loopPc = "sleep"
    /\ loopPc' = "returned"
    /\ monitored' = <<>>
    /\ idx' = 0
    /\ UNCHANGED subgraph
    /\ called' = <<>>
    /\ failed' = {}
    /\ UNCHANGED <<sideVars, graphVars, routeVars, fetchVars, llmVars, proc, registered, pc, localVars, storeVars, stepVars,
                   histVars, budget, faults>>

\* the timer fires and while (true) starts the next cycle
Wake ==
    /\ Alive
    /\ loopPc = "sleep"
    /\ loopPc' = "discover"
    /\ monitored' = <<>>
    /\ idx' = 0
    /\ UNCHANGED subgraph
    /\ called' = <<>>
    /\ failed' = {}
    /\ UNCHANGED <<sideVars, graphVars, routeVars, fetchVars, llmVars, proc, registered, pc, localVars, storeVars, stepVars,
                   histVars, budget, faults>>

\* ----------------------------------------------------- checkAndDecide
\* the awaited call rejects: control goes to catch (err) { console.error }
Throws(a) ==
    /\ pc[a] \in PostVerdict => faults < MaxFaults
    /\ faults' = IF pc[a] \in PostVerdict THEN faults + 1 ELSE faults
    /\ pc' = [pc EXCEPT ![a] = "caught"]
    /\ failed' = failed \cup {a}
    /\ clean' = [clean EXCEPT ![a] = IF pc[a] \in PostVerdict THEN FALSE ELSE @]

\* the awaited call resolves and checkAndDecide goes on to position next
Goes(a, next) ==
    /\ pc' = [pc EXCEPT ![a] = next]
    /\ UNCHANGED <<faults, clean, failed>>

At(a, pos) == Alive /\ pc[a] = pos

\* readContract getHealthData; if (!health.isMonitored) return
GetHealthData(a) ==
    /\ At(a, "getHealthData")
    /\ \/ \E isMonitored \in BOOLEAN :
            /\ health' = [health EXCEPT ![a] =
                              [read |-> TRUE, isMonitored |-> isMonitored]]
            /\ Goes(a, IF isMonitored THEN "fetchAgentCard" ELSE "done")
       \/ /\ Throws(a)
          /\ UNCHANGED health
    /\ UNCHANGED <<sideVars, graphVars, routeVars, fetchVars, llmVars, proc, loopVars, endpoint, pingResult, decision, count, storeVars, stepVars, run, nhRun,
                   budget>>

\* variant: the probe is made whatever the endpoint is
ChooseEndpoint_Always(a) ==
    \E e \in Endpoints :
        /\ endpoint' = [endpoint EXCEPT ![a] = e]
        /\ Goes(a, "pingEndpoint")

\* fetchAgentCard has returned; endpoint = knownEndpoint || the endpoint of
\* the card's status service; if (!endpoint) return
ChooseEndpoint(a) ==
    \E e \in Endpoints :
        /\ endpoint' = [endpoint EXCEPT ![a] = e]
        /\ Goes(a, IF e # "" THEN "pingEndpoint" ELSE "done")

\* fetchAgentCard up to its first gateway: readContract tokenURI rejects,
\* or gives an empty uri or a uri without a hash, and null is returned; or
\* the list of gateways is built
ReadTokenURI(a) ==
    /\ At(a, "fetchAgentCard")
    /\ card.pc = "idle"
    /\ \/ /\ \E cause \in {"raised", "empty", "nohash"} :
                card' = [NoCard EXCEPT !.pc = "returned", !.cause = cause]
          /\ ChooseEndpoint(a)
       \/ /\ \E primary \in BOOLEAN :
                card' = [NoCard EXCEPT !.pc = "gateways",
                                       !.gateways = Gateways(primary),
                                       !.i = 1]
          /\ UNCHANGED <<pc, faults, clean, failed, endpoint>>
    /\ UNCHANGED <<sideVars, graphVars, routeVars, http, gets, llmVars, proc, loopVars, health, pingResult, decision, count, storeVars,
                   stepVars, run, nhRun, budget>>

\* one pass of for (const gateway of gateways): axios.get settles with the
\* outcome o, the GETs that axios-retry repeated before it not counted; it
\* resolves and res.data is returned, or it rejects and the loop continues;
\* after the last gateway null is returned
GatewayGet(a) ==
    /\ At(a, "fetchAgentCard")
    /\ card.pc = "gateways"
    /\ \E o \in HttpOutcomes :
          LET gateway == card.gateways[card.i]
              tried == [card EXCEPT !.contacted = Append(@, gateway),
                                    !.answers = Append(@, o.status)]
          IN  IF Resolves(o)
              THEN /\ card' = [tried EXCEPT
                                 !.pc = "returned", !.cause = "fetched",
                                 !.result = <<gateway, o.data>>]
                   /\ ChooseEndpoint(a)
              ELSE IF card.i < Len(card.gateways)
              THEN /\ card' = [tried EXCEPT !.i = @ + 1]
                   /\ UNCHANGED <<pc, faults, clean, failed, endpoint>>
              ELSE /\ card' = [tried EXCEPT !.pc = "returned",
                                            !.cause = "allFailed"]
                   /\ ChooseEndpoint(a)
    /\ UNCHANGED <<sideVars, graphVars, routeVars, http, gets, llmVars, proc, loopVars, health, pingResult, decision, count, storeVars,
                   stepVars, run, nhRun, budget>>

\* fetchAgentCard as its caller sees it: it never rejects
FetchAgentCard(a) ==
    /\ At(a, "fetchAgentCard")
    /\ card.pc = "idle"
    /\ ChooseEndpoint(a)
    /\ UNCHANGED <<sideVars, graphVars, routeVars, fetchVars, llmVars, proc, loopVars, health, pingResult, decision, count, storeVars,
                   stepVars, run, nhRun, budget>>

\* axiosRetry(axios, { retries: 3, ... })
retries == 3

\* retryCondition: error.code === 'ECONNABORTED', the code of a timeout, or
\* a response with a status of 500 or more
retryCondition(o) ==
    \/ o.kind = "timeout"
    \/ o.kind = "response" /\ o.status >= 500

\* pingEndpoint, its request followed: one GET of axios.get(endpoint, ...)
\* has the outcome o.  axios-retry, installed on the axios instance, issues
\* the request again when retryCondition holds and fewer than retries
\* retries were made; after a timeout it may also give up, the 10000 ms of
\* the request being used up.  Otherwise axios.get settles with o, t ms
\* after the call
AxiosGet(a) ==
    /\ At(a, "pingEndpoint")
    /\ \E o \in HttpOutcomes :
          /\ http' = o
          /\ gets' = gets + 1
          /\ \/ /\ retryCondition(o)
                /\ gets < retries
                /\ UNCHANGED <<pc, faults, clean, failed, pingResult>>
             \/ /\ retryCondition(o) /\ gets < retries => o.kind = "timeout"
                /\ \E t \in ResponseTimes :
                      pingResult' = [pingResult EXCEPT
                                        ![a] = pingEndpoint(o, t)]
                /\ Goes(a, "getResponseTrends")
    /\ card' = NoCard
    /\ UNCHANGED <<sideVars, graphVars, routeVars, llmVars, proc, loopVars, health, endpoint, decision, count, storeVars,
                   stepVars, run, nhRun, budget>>

\* pingEndpoint as its caller sees it: it never rejects
PingEndpoint(a) ==
    /\ At(a, "pingEndpoint")
    /\ \E p \in PingResults : pingResult' = [pingResult EXCEPT ![a] = p]
    /\ Goes(a, "getResponseTrends")
    /\ UNCHANGED <<sideVars, graphVars, routeVars, fetchVars, llmVars, proc, loopVars, health, endpoint, decision, count,
                   storeVars, stepVars, run, nhRun, budget>>

\* a value JavaScript takes as true in a condition
Truthy(data) == data \notin {NoBody, ""}

\* getResponseTrends reads the agent row; then
\* if (pingResult.success && pingResult.data) validateResponseContent
GetResponseTrends(a) ==
    /\ At(a, "getResponseTrends")
    /\ \/ Goes(a, IF pingResult[a].success /\ Truthy(pingResult[a].data)
                   THEN "validateResponseContent" ELSE "fetchReputation")
       \/ Throws(a)
    /\ http' = NoOutcome
    /\ gets' = 0
    /\ UNCHANGED <<sideVars, graphVars, routeVars, card, llmVars, proc, loopVars, localVars, storeVars,
                   stepVars, run, nhRun, budget>>

\* validateResponseContent: its cache lookup is outside its try block
ValidateResponseContent(a) ==
    /\ At(a, "validateResponseContent")
    /\ \/ Goes(a, "fetchReputation")
       \/ Throws(a)
    /\ UNCHANGED <<sideVars, graphVars, routeVars, fetchVars, llmVars, proc, loopVars, localVars, storeVars, stepVars, run, nhRun,
                   budget>>

\* fetchReputationFromSubgraph / fetchReputationFromContract never reject
FetchReputation(a) ==
    /\ At(a, "fetchReputation")
    /\ Goes(a, "makeHealthDecision")
    /\ UNCHANGED <<sideVars, graphVars, routeVars, fetchVars, llmVars, proc, loopVars, localVars, storeVars, stepVars, run, nhRun,
                   budget>>

\* variant: the chain write is the first statement after the verdict
AfterVerdict_ChainFirst == "updateHealth"

\* the statement after makeHealthDecision: await db.pushResponseHistory
AfterVerdict == "pushResponseHistory"

\* const decision = await makeHealthDecision(...) has resolved with d
Decide(a, d) ==
    LET r == CASE d.decision = "healthy" -> 0
               [] d.decision = "suspicious" -> run[a] + 1
               [] OTHER -> run[a]
        n == CASE d.decision = "healthy" -> 0
               [] d.decision \in {"suspicious", "critical"} -> nhRun[a] + 1
               [] OTHER -> nhRun[a]
    IN  /\ budget[a] > 0
        /\ budget' = [budget EXCEPT ![a] = @ - 1]
        /\ decision' = [decision EXCEPT ![a] = d]
        /\ run' = [run EXCEPT ![a] = r]
        /\ nhRun' = [nhRun EXCEPT ![a] = n]
        /\ stepRun' = [stepRun EXCEPT ![a] = r]
        /\ stepNh' = [stepNh EXCEPT ![a] = n]
        /\ Goes(a, AfterVerdict)

\* makeHealthDecision as its caller sees it: it returns a cached value, a
\* parsed model reply or the safe default, or its cache lookup, which is
\* outside its try block, rejects
MakeHealthDecision(a) ==
    /\ At(a, "makeHealthDecision")
    /\ \/ \E d \in Replies : Decide(a, d)
       \/ /\ Throws(a)
          /\ UNCHANGED <<decision, run, nhRun, stepRun, stepNh, budget>>
    /\ UNCHANGED <<sideVars, graphVars, routeVars, fetchVars, llmVars, proc, loopVars, health, endpoint, pingResult, count, storeVars, txs,
                   stepEvents, writes, mined>>

\* { $slice: n } with n < 0: the last -n elements of the array
Slice(s, n) ==
    IF Len(s) <= -n THEN s ELSE SubSeq(s, Len(s) + n + 1, Len(s))

\* the entry checkAndDecide pushes: timestamp: Date.now(), numbered after
\* the last entry of the document
NewEntry(row) ==
    [timestamp |-> now,
     n |-> IF row.responseHistory = <<>> THEN 1
           ELSE row.responseHistory[Len(row.responseHistory)].n + 1]

\* variant: the array is cut to its first 20 elements
pushResponseHistory_KeepFirst(row, entry) ==
    [row EXCEPT !.present = TRUE,
                !.responseHistory =
                    SubSeq(Append(@, entry), 1,
                           IF Len(@) < HistorySlice THEN Len(@) + 1
                           ELSE HistorySlice)]

\* db.pushResponseHistory: $push with $each: [entry], $slice: -20, upsert
pushResponseHistory(row, entry) ==
    [row EXCEPT !.present = TRUE,
                !.responseHistory = Slice(Append(@, entry), -HistorySlice)]

PushResponseHistory(a) ==
    /\ At(a, "pushResponseHistory")
    /\ \/ /\ agents' = [agents EXCEPT ![a] =
                                pushResponseHistory(@, NewEntry(@))]
          /\ writes' = [writes EXCEPT ![a] = Append(@, "pushResponseHistory")]
          /\ Goes(a, "upsertAgent")
       \/ /\ Throws(a)
          /\ UNCHANGED <<agents, writes>>
    /\ UNCHANGED <<sideVars, graphVars, routeVars, fetchVars, llmVars, proc, loopVars, localVars, healthEvents, suspicious_counts,
                   txs, stepEvents, stepRun, stepNh, mined, run, nhRun, budget>>

\* db.upsertAgent: $set of the derived fields, upsert
UpsertAgent(a) ==
    /\ At(a, "upsertAgent")
    /\ \/ /\ agents' = [agents EXCEPT ![a].present = TRUE]
          /\ writes' = [writes EXCEPT ![a] = Append(@, "upsertAgent")]
          /\ Goes(a, "logHealthEvent")
       \/ /\ Throws(a)
          /\ UNCHANGED <<agents, writes>>
    /\ UNCHANGED <<sideVars, graphVars, routeVars, fetchVars, llmVars, proc, loopVars, localVars, healthEvents, suspicious_counts,
                   txs, stepEvents, stepRun, stepNh, mined, run, nhRun, budget>>

\* db.logHealthEvent: insertOne; a decision none of the three branches tests
\* for ends checkAndDecide here
LogHealthEvent(a) ==
    /\ At(a, "logHealthEvent")
    /\ \/ /\ healthEvents' = [healthEvents EXCEPT ![a] = @ + 1]
          /\ stepEvents' = [stepEvents EXCEPT ![a] = @ + 1]
          /\ writes' = [writes EXCEPT ![a] = Append(@, "logHealthEvent")]
          /\ Goes(a, IF decision[a].decision \in Verdicts
                     THEN "updateHealth" ELSE "done")
       \/ /\ Throws(a)
          /\ UNCHANGED <<healthEvents, stepEvents, writes>>
    /\ UNCHANGED <<sideVars, graphVars, routeVars, fetchVars, llmVars, proc, loopVars, localVars, agents, suspicious_counts,
                   txs, mined, stepRun, stepNh, run, nhRun, budget>>

\* variant: every branch passes the probe's own time and success flag
UpdateHealthArgs_Probe(a, d, p) ==
    UpdateHealthTx(a, p.responseTimeMs, p.success)

\* the updateHealth call of the branch the decision selects
UpdateHealthArgs(a, d, p) ==
    CASE d.decision = "healthy" -> UpdateHealthTx(a, p.responseTimeMs, TRUE)
      [] d.decision = "suspicious" -> UpdateHealthTx(a, p.responseTimeMs, p.success)
      [] OTHER -> UpdateHealthTx(a, 0, FALSE)

\* variant: the critical branch goes on to reportSuspicious
AfterUpdateHealth_CriticalSlashes(d) ==
    CASE d.decision = "healthy" -> "resetSuspiciousCount"
      [] d.decision = "suspicious" -> "incrementSuspiciousCount"
      [] OTHER -> "reportSuspicious"

\* what follows the updateHealth call in the branch the decision selects
AfterUpdateHealth(d) ==
    CASE d.decision = "healthy" -> "resetSuspiciousCount"
      [] d.decision = "suspicious" -> "incrementSuspiciousCount"
      [] OTHER -> "done"

\* walletClient.writeContract({functionName: 'updateHealth', ...})
UpdateHealth(a) ==
    /\ At(a, "updateHealth")
    /\ writes' = [writes EXCEPT ![a] = Append(@, "updateHealth")]
    /\ txs' = [txs EXCEPT ![a] =
                  Append(@, UpdateHealthArgs(a, decision[a], pingResult[a]))]
    /\ \/ Goes(a, AfterUpdateHealth(decision[a]))
       \/ Throws(a)
    /\ UNCHANGED <<sideVars, graphVars, routeVars, fetchVars, llmVars, proc, loopVars, localVars, storeVars, stepEvents, mined, stepRun,
                   stepNh, run, nhRun, budget>>

\* variant: the healthy branch leaves the counter row as it is
resetSuspiciousCount_Keep(row) == row

\* db.resetSuspiciousCount: updateOne without upsert
resetSuspiciousCount(row) ==
    IF row.present THEN [row EXCEPT !.consecutiveSuspicious = 0] ELSE row

ResetSuspiciousCount(a) ==
    /\ At(a, "resetSuspiciousCount")
    /\ \/ /\ suspicious_counts' =
                [suspicious_counts EXCEPT ![a] = resetSuspiciousCount(@)]
          /\ Goes(a, "done")
       \/ /\ Throws(a)
          /\ UNCHANGED suspicious_counts
    /\ UNCHANGED <<sideVars, graphVars, routeVars, fetchVars, llmVars, proc, loopVars, localVars, agents, healthEvents, stepVars,
                   run, nhRun, budget>>

\* incrementSuspiciousCount, first store call: findOneAndUpdate with $inc,
\* upsert, returnDocument 'after'
findOneAndUpdate(row) ==
    [row EXCEPT !.present = TRUE,
                !.consecutiveSuspicious = @ + 1,
                !.totalSuspicious = @ + 1]

\* incrementSuspiciousCount up to its test count >= threshold
IncrementSuspiciousCount(a) ==
    /\ At(a, "incrementSuspiciousCount")
    /\ \/ LET row == findOneAndUpdate(suspicious_counts[a])
          IN  /\ suspicious_counts' = [suspicious_counts EXCEPT ![a] = row]
              /\ count' = [count EXCEPT ![a] = row.consecutiveSuspicious]
              /\ Goes(a, IF row.consecutiveSuspicious >= Threshold
                         THEN "markSlashed" ELSE "getSuspiciousCount")
       \/ /\ Throws(a)
          /\ UNCHANGED <<suspicious_counts, count>>
    /\ UNCHANGED <<sideVars, graphVars, routeVars, fetchVars, llmVars, proc, loopVars, health, endpoint, pingResult, decision, agents, healthEvents,
                   stepVars, run, nhRun, budget>>

\* variant: the second store call stamps lastSlashedAt only
markSlashed_NoReset(row) ==
    IF row.present THEN [row EXCEPT !.lastSlashedAt = TRUE] ELSE row

\* incrementSuspiciousCount, second store call: updateOne without upsert
markSlashed(row) ==
    IF row.present
    THEN [row EXCEPT !.consecutiveSuspicious = 0, !.lastSlashedAt = TRUE]
    ELSE row

\* incrementSuspiciousCount from count >= threshold to return true
MarkSlashed(a) ==
    /\ At(a, "markSlashed")
    /\ \/ /\ suspicious_counts' = [suspicious_counts EXCEPT ![a] = markSlashed(@)]
          /\ Goes(a, "reportSuspicious")
       \/ /\ Throws(a)
          /\ UNCHANGED suspicious_counts
    /\ UNCHANGED <<sideVars, graphVars, routeVars, fetchVars, llmVars, proc, loopVars, localVars, agents, healthEvents, stepVars,
                   run, nhRun, budget>>

\* walletClient.writeContract({functionName: 'reportSuspicious', ...})
ReportSuspicious(a) ==
    /\ At(a, "reportSuspicious")
    /\ writes' = [writes EXCEPT ![a] = Append(@, "reportSuspicious")]
    /\ txs' = [txs EXCEPT ![a] = Append(@, ReportSuspiciousTx(a, decision[a]))]
    /\ run' = [run EXCEPT ![a] = 0]
    /\ nhRun' = [nhRun EXCEPT ![a] = 0]
    /\ \/ Goes(a, "done")
       \/ Throws(a)
    /\ UNCHANGED <<sideVars, graphVars, routeVars, fetchVars, llmVars, proc, loopVars, localVars, storeVars, stepEvents, mined, stepRun,
                   stepNh, budget>>

\* the chain includes the oldest pending transaction of the cycle in a
\* block: from then on waitForTransactionReceipt would resolve for it
Mine(a) ==
    /\ Alive
    /\ mined[a] < Len(txs[a])
    /\ mined' = [mined EXCEPT ![a] = @ + 1]
    /\ UNCHANGED <<sideVars, graphVars, routeVars, fetchVars, llmVars, proc, loopVars,
                   failed, pc, localVars, storeVars, txs, stepEvents, stepRun,
                   stepNh, writes, histVars, budget, faults>>

\* db.getSuspiciousCount for the log line of the else branch
GetSuspiciousCount(a) ==
    /\ At(a, "getSuspiciousCount")
    /\ \/ Goes(a, "done")
       \/ Throws(a)
    /\ UNCHANGED <<sideVars, graphVars, routeVars, fetchVars, llmVars, proc, loopVars, localVars, storeVars, stepVars, run, nhRun,
                   budget>>

\* ------------------------------------------------------- AgentCache
\* A cache key is kept as the list of its pieces between underscores, each
\* piece the list of its fields between colons.
\* `health:${agentId}:${pingResult.success}:${pingResult.responseTimeMs}`
HealthKey(a, p) ==
    << <<"health", ToString(a), ToString(p.success),
         ToString(p.responseTimeMs)>> >>

\* `response:${endpoint}:${JSON.stringify(responseData)}`
ResponseKey == << <<"response", "endpoint", "body">> >>

\* `narrative:${agentId}`
NarrativeKey(a) == << <<"narrative", ToString(a)>> >>

\* `onboard:${name}:${endpoint}` for a name without underscores
OnboardKey == << <<"onboard", "bot", "endpoint">> >>

\* `onboard:${name}:${endpoint}` for the name bot_<agentId>_v2
OnboardKeyNamed(a) ==
    << <<"onboard", "bot">>, <<ToString(a)>>, <<"v2", "endpoint">> >>

\* { key: { $regex: `(^|_)${agentId}($|_)` } }
MatchesAgentId(key, a) ==
    \E i \in 1..Len(key) : key[i] = <<ToString(a)>>

\* what getCachedAgent returns for a miss
Null == NoDecision

\* variant: an entry is served up to and including its deadline
getCachedAgent_Inclusive(key) ==
    LET docs == {doc \in AgentCache : doc.key = key}
    IN  IF docs # {} /\ (CHOOSE doc \in docs : TRUE).expiresAt >= now
        THEN (CHOOSE doc \in docs : TRUE).data
        ELSE Null

\* getCachedAgent: findOne({ key }); doc && doc.expiresAt > new Date()
getCachedAgent(key) ==
    LET docs == {doc \in AgentCache : doc.key = key}
    IN  IF docs # {} /\ (CHOOSE doc \in docs : TRUE).expiresAt > now
        THEN (CHOOSE doc \in docs : TRUE).data
        ELSE Null

\* setCachedAgent: updateOne({ key }, { $set: ... }, { upsert: true })
setCachedAgent(key, data) ==
    {doc \in AgentCache : doc.key # key}
    \cup {[key |-> key, data |-> data, createdAt |-> now,
           expiresAt |-> now + Agent_CACHE_TTL_SECONDS]}

\* the record of a successful setCachedAgent
NoteSet(key, data) ==
    {h \in lastSet : h.key # key}
    \cup {[key |-> key, data |-> data, at |-> now]}

\* ---------------------------------------------------- LLM component
\* variant: the catch block distrusts the agent whatever the probe said
SafeDefault_Suspicious(op, probe) ==
    IF op = "health"
    THEN [decision |-> "suspicious", failureType |-> "error"]
    ELSE [decision |-> "default", failureType |-> "none"]

\* the value an operation returns from its catch block; for makeHealthDecision
\* the decision and failureType of the literal at decisions.ts:440-446, whose
\* anomalyDetected is the constant false
SafeDefault(op, probe) ==
    IF op = "health"
    THEN IF probe THEN [decision |-> "healthy", failureType |-> "none"]
         ELSE [decision |-> "suspicious", failureType |-> "error"]
    ELSE [decision |-> "default", failureType |-> "none"]

\* the values JSON.parse(content) can give an operation
OpReplies(op) ==
    IF op = "health" THEN Replies
    ELSE {[decision |-> "reply", failureType |-> "none"]}

\* the arguments an operation is called with when it is called on its own,
\* outside checkAndDecide: its cache key and, for makeHealthDecision,
\* pingResult.success
OpArgs(op) ==
    CASE op = "health" ->
            {[key |-> HealthKey(a, p), probe |-> p.success] :
                a \in registered,
                p \in {q \in PingResults :
                          \A t \in ResponseTimes : q.responseTimeMs <= t}}
      [] op = "response" -> {[key |-> ResponseKey, probe |-> TRUE]}
      [] op = "narrative" ->
            {[key |-> NarrativeKey(a), probe |-> FALSE] : a \in registered}
      [] OTHER ->
            {[key |-> k, probe |-> FALSE] :
                k \in {OnboardKey, OnboardKeyNamed(Tracked)}}

\* the operation called by c returns v to its caller; caller 0 is a caller
\* outside checkAndDecide
Deliver(c, op, v) ==
    CASE c # 0 /\ op = "health" -> Decide(c, v)
      [] c # 0 /\ op = "response" ->
            /\ Goes(c, "fetchReputation")
            /\ UNCHANGED <<decision, run, nhRun, stepRun, stepNh, budget>>
      [] OTHER ->
            UNCHANGED <<pc, faults, clean, failed, decision, run, nhRun,
                        stepRun, stepNh, budget>>

\* the operation is suspended at an await of its own
Pending ==
    UNCHANGED <<pc, faults, clean, failed, decision, run, nhRun, stepRun,
                stepNh, budget>>

\* variant: the lookup result is ignored and the model is always asked
Hit_Never(cached) == FALSE

\* if (cached) return cached
Hit(cached) == cached # Null

\* the first statements of an operation: the key, the cache lookup and
\* if (cached) return cached
Lookup(c, op, key, probe) ==
    LET cached == getCachedAgent(key)
        call == [NoCall EXCEPT !.op = op, !.key = key, !.caller = c,
                               !.probe = probe]
    IN  IF Hit(cached)
        THEN /\ llm' = [call EXCEPT !.origin = "cache", !.value = cached]
             /\ Deliver(c, op, cached)
        ELSE /\ llm' = [call EXCEPT !.pc = "callGroq", !.attempt = 1]
             /\ Pending

\* makeHealthDecision up to its first return or to callGroqStructured
HealthLookup(a) ==
    /\ At(a, "makeHealthDecision")
    /\ llm.pc = "idle"
    /\ budget[a] > 0
    /\ \/ Lookup(a, "health", HealthKey(a, pingResult[a]),
                 pingResult[a].success)
       \/ /\ Throws(a)
          /\ UNCHANGED <<llm, decision, run, nhRun, stepRun, stepNh, budget>>
    /\ UNCHANGED <<sideVars, graphVars, routeVars, fetchVars, now, AgentCache, lastSet, calls, proc, loopVars,
                   health, endpoint, pingResult, count, storeVars, txs, stepEvents, writes, mined>>

\* validateResponseContent up to its first return or to callGroqStructured
ResponseLookup(a) ==
    /\ At(a, "validateResponseContent")
    /\ llm.pc = "idle"
    /\ \/ Lookup(a, "response", ResponseKey, TRUE)
       \/ /\ Throws(a)
          /\ UNCHANGED <<llm, decision, run, nhRun, stepRun, stepNh, budget>>
    /\ UNCHANGED <<sideVars, graphVars, routeVars, fetchVars, now, AgentCache, lastSet, calls, proc, loopVars,
                   health, endpoint, pingResult, count, storeVars, txs, stepEvents, writes, mined>>

\* one of the four operations, called on its own, up to its first return
\* or to callGroqStructured
CallOperation ==
    /\ Alive
    /\ llm.pc = "idle"
    /\ calls < MaxCalls
    /\ calls' = calls + 1
    /\ \E op \in Ops :
          \E arg \in OpArgs(op) : Lookup(0, op, arg.key, arg.probe)
    /\ UNCHANGED <<sideVars, graphVars, routeVars, fetchVars, now, AgentCache, lastSet, proc, loopVars, health, endpoint, pingResult,
                   count, storeVars, txs, stepEvents, writes, mined>>

\* the operation in progress has returned v: its locals are gone, what is
\* kept is which operation it was, how v came about and v
Returned(origin, v) ==
    [NoCall EXCEPT !.op = llm.op, !.key = llm.key, !.caller = llm.caller,
                   !.origin = origin, !.value = v,
                   !.made = llm.made, !.waits = llm.waits]

\* variant: the catch block lets one more attempt through
IsLastAttempt_OneMore(attempt) == attempt = maxRetries + 1

\* if (attempt === maxRetries) throw err
IsLastAttempt(attempt) == attempt = maxRetries

\* one pass of the for loop of callGroqStructured: the completion request
\* is made; its content is parsed and returned, or the attempt fails and
\* is retried, or, at maxRetries, rethrown into the catch of the operation
CallGroq ==
    /\ Alive
    /\ llm.pc = "callGroq"
    /\ \/ \E r \in OpReplies(llm.op) :
            /\ llm' = [llm EXCEPT !.requests = @ + 1, !.made = @ + 1,
                                  !.result = r, !.pc = "setCachedAgent"]
            /\ Pending
       \/ /\ ~IsLastAttempt(llm.attempt)
          /\ llm' = [llm EXCEPT !.requests = @ + 1, !.made = @ + 1,
                                !.waits = Append(@, 2000 * llm.attempt),
                                !.attempt = @ + 1]
          /\ Pending
       \/ /\ IsLastAttempt(llm.attempt)
          /\ llm' = [Returned("exhausted", SafeDefault(llm.op, llm.probe))
                        EXCEPT !.made = llm.made + 1]
          /\ Deliver(llm.caller, llm.op, SafeDefault(llm.op, llm.probe))
    /\ UNCHANGED <<sideVars, graphVars, routeVars, fetchVars, now, AgentCache, lastSet, calls, proc, loopVars,
                   health, endpoint, pingResult, count, storeVars, txs, stepEvents, writes, mined>>

\* await db.setCachedAgent(cacheKey, result); return result -- or the
\* write rejects inside the try block and the catch returns the default
SetCachedAgent ==
    /\ Alive
    /\ llm.pc = "setCachedAgent"
    /\ \/ /\ AgentCache' = setCachedAgent(llm.key, llm.result)
          /\ lastSet' = NoteSet(llm.key, llm.result)
          /\ llm' = [Returned("model", llm.result) EXCEPT !.writes = 1]
          /\ Deliver(llm.caller, llm.op, llm.result)
       \/ /\ UNCHANGED <<AgentCache, lastSet>>
          /\ llm' = Returned("writeFailed", SafeDefault(llm.op, llm.probe))
          /\ Deliver(llm.caller, llm.op, SafeDefault(llm.op, llm.probe))
    /\ UNCHANGED <<sideVars, graphVars, routeVars, fetchVars, now, calls, proc, loopVars, health, endpoint, pingResult, count, storeVars,
                   txs, stepEvents, writes, mined>>

\* time passes
Tick ==
    /\ \E j \in {Agent_CACHE_TTL_SECONDS - 1, Agent_CACHE_TTL_SECONDS} :
          /\ now + j <= MaxJumps * Agent_CACHE_TTL_SECONDS
          /\ now' = now + j
    /\ UNCHANGED <<sideVars, graphVars, routeVars, fetchVars, AgentCache, llm, lastSet, calls, proc, loopVars, failed,
                   pc, localVars, storeVars, stepVars, histVars, budget,
                   faults>>

\* the TTL index { expiresAt: 1 }, expireAfterSeconds: 0 removes a document
\* whose deadline has passed
Evict ==
    /\ \E doc \in AgentCache :
          /\ doc.expiresAt <= now
          /\ AgentCache' = AgentCache \ {doc}
    /\ UNCHANGED <<sideVars, graphVars, routeVars, fetchVars, now, llm, lastSet, calls, proc, loopVars, failed, pc,
                   localVars, storeVars, stepVars, histVars, budget, faults>>

\* ------------------------------------------- POST /agents/unregister
\* variant: only the rows whose key begins with the agent id are selected
CacheRowsOf_Prefix(a) ==
    {doc \in AgentCache : doc.key[1] = <<ToString(a)>>}

\* the rows deleteMany({ key: { $regex: ... } }) selects
CacheRowsOf(a) == {doc \in AgentCache : MatchesAgentId(doc.key, a)}

\* db.deleteAgentData: the agent row, its health events, the cache rows the
\* regular expression selects, and the counter row
DeleteAgentData(a) ==
    /\ Alive
    /\ agents' = [agents EXCEPT ![a] = NoAgent]
    /\ healthEvents' = [healthEvents EXCEPT ![a] = 0]
    /\ AgentCache' = AgentCache \ CacheRowsOf(a)
    /\ lastSet' = {h \in lastSet : ~MatchesAgentId(h.key, a)}
    /\ suspicious_counts' = [suspicious_counts EXCEPT ![a] = NoRow]
    /\ run' = [run EXCEPT ![a] = 0]
    /\ nhRun' = [nhRun EXCEPT ![a] = 0]
    /\ clean' = [clean EXCEPT ![a] =
                    IF pc[a] = "idle" /\ ~agents[a].present
                       /\ healthEvents[a] = 0
                       /\ ~suspicious_counts[a].present
                    THEN @ ELSE FALSE]
    /\ UNCHANGED <<sideVars, graphVars, routeVars, fetchVars, now, llm, calls, proc, loopVars, failed, pc, localVars,
                   stepVars, budget, faults>>

\* ----------------------------------------------- POST /agents/notify
\* db.upsertAgent with the seed fields of a newly registered agent: $set of
\* the fields passed, none of them responseHistory, upsert
NotifyRegistered(a) ==
    /\ Alive
    /\ agents' = [agents EXCEPT ![a].present = TRUE]
    /\ UNCHANGED <<sideVars, graphVars, routeVars, fetchVars, llmVars, proc, loopVars, failed, pc, localVars,
                   healthEvents, suspicious_counts, stepVars, histVars,
                   budget, faults>>

\* ------------------------------------------------------ HTTP routes
\* process.env.API_SECRET_KEY, configured
API_SECRET_KEY == "secret"

\* the X-Api-Key header of a request: absent, wrong, or the configured key
ApiKeys == {"", "wrong", API_SECRET_KEY}

\* authenticateApiKey: next() is called, rather than 401 sent
authenticateApiKey(apiKey) ==
    \/ API_SECRET_KEY = ""
    \/ ~(apiKey = "" \/ apiKey # API_SECRET_KEY)

\* req.body.recipient: absent, or an address in one or the other case
Recipients == {"", "0xab", "0xAB", "0xcd"}

\* address.toLowerCase()
toLowerCase(address) == IF address = "0xAB" THEN "0xab" ELSE address

\* db.hasFaucetClaim: findOne({ address: address.toLowerCase() }) is not null
hasFaucetClaim(address) == toLowerCase(address) \in faucet_claims

\* req.body.amount, 0 standing for an absent amount
Amounts == {0, 15, 101}

\* Number(amount) || 15
tokenAmount(amount) == IF amount = 0 THEN 15 ELSE amount

\* what the chain makes of a submitted transfer, as the receipt tells it
ReceiptStatuses == {"success", "reverted"}

\* POST /faucet: postEndpointRateLimit and the handler; 400 for a missing
\* recipient or an amount over 100, else writeContract(transfer) and
\* waitForTransactionReceipt, or writeContract rejects and 500 is sent
PostFaucet(recipient, amount, apiKey) ==
    /\ Alive
    /\ Len(transfers) < MaxTransfers
    /\ IF recipient = "" \/ tokenAmount(amount) > 100
       THEN UNCHANGED transfers
       ELSE \/ \E status \in ReceiptStatuses :
                 transfers' = Append(transfers,
                                     [to |-> recipient,
                                      amount |-> tokenAmount(amount),
                                      status |-> status])
            \/ UNCHANGED transfers
    /\ UNCHANGED <<sideVars, graphVars, faucet_claims, fetchVars, llmVars, proc, loopVars, failed,
                   pc, localVars, storeVars, stepVars, histVars, budget,
                   faults>>

\* POST /agents/unregister: postEndpointRateLimit and the handler, which
\* calls db.deleteAgentData
PostUnregister(a, apiKey) ==
    /\ Alive
    /\ DeleteAgentData(a)

\* POST /agents/notify: postEndpointRateLimit, authenticateApiKey and the
\* handler, which upserts the seed row once the receipt is there, or sends
\* 500 when waiting for the receipt rejects
PostNotify(a, apiKey) ==
    IF authenticateApiKey(apiKey)
    THEN \/ NotifyRegistered(a)
         \/ Alive /\ UNCHANGED vars
    ELSE Alive /\ UNCHANGED vars

\* POST /prepareOnboard: postEndpointRateLimit, authenticateApiKey and the
\* handler up to validateOnboardingData, which runs to its first return or
\* to callGroqStructured; what follows the validation writes to Pinata only
PostPrepareOnboard(apiKey) ==
    IF authenticateApiKey(apiKey)
    THEN /\ Alive
         /\ llm.pc = "idle"
         /\ calls < MaxCalls
         /\ calls' = calls + 1
         /\ \E arg \in OpArgs("onboard") :
               Lookup(0, "onboard", arg.key, arg.probe)
         /\ UNCHANGED <<sideVars, graphVars, routeVars, fetchVars, now, AgentCache, lastSet, proc,
                        loopVars, health, endpoint, pingResult, count, storeVars, txs,
                        stepEvents, writes, mined>>
    ELSE Alive /\ UNCHANGED vars

\* ---------------------------------------------------------- subgraph
\* transaction hashes, shortened to two bytes, and the positions of a log
\* in its block
Hashes == {<<161, 96>>, <<161, 97>>}
LogIndexes == {0, 1}

\* the scores a HealthUpdated event carries
Scores == {50, 100}

\* BigInt.toI32(): the value itself when it fits 32 signed bits, and it
\* wraps when it does not
toI32(n) ==
    IF n <= 2147483647 THEN n ELSE ((n - 2147483647) - 2147483647) - 2

\* the four bytes of an i32, least significant first
I32Bytes(n) ==
    <<n % 256, (n \div 256) % 256, (n \div 65536) % 256,
      (n \div 16777216) % 256>>

\* Bytes.concatI32
concatI32(bytes, n) == bytes \o I32Bytes(n)

\* variant: the id is the transaction hash alone
EntityId_HashOnly(event) == event.hash

\* event.transaction.hash.concatI32(event.logIndex.toI32())
EntityId(event) == concatI32(event.hash, toI32(event.logIndex))

\* the HealthUpdated logs the chain can deliver: no two logs share both the
\* transaction hash and the log index
Events ==
    [hash : Hashes, logIndex : LogIndexes, agentId : Agents,
     oldScore : Scores, newScore : Scores, responseTime : ResponseTimes,
     success : BOOLEAN]

\* the block of the next log, numbered and timed by its position
Block == Len(handled) + 1

\* entity.save(): the entity of that id is created or replaced
save(store, entity) ==
    {e \in store : e.id # entity.id} \cup {entity}

\* getOrCreateAgent: the stored aggregate, or a fresh one
getOrCreateAgent(agentId, timestamp) ==
    IF MonitoredAgent[agentId].present
    THEN MonitoredAgent[agentId]
    ELSE [present |-> TRUE, healthScore |-> 100, consecutiveFailures |-> 0,
          totalChecks |-> 0, successfulChecks |-> 0,
          lastCheckTimestamp |-> timestamp, createdAt |-> timestamp,
          updatedAt |-> timestamp]

\* handleHealthUpdated: the event record is saved, then the aggregate of
\* the agent is loaded or created, updated and saved
handleHealthUpdated(event) ==
    LET entity == [id |-> EntityId(event),
                   agentId |-> event.agentId,
                   oldScore |-> event.oldScore,
                   newScore |-> event.newScore,
                   responseTime |-> event.responseTime,
                   success |-> event.success,
                   blockNumber |-> Block,
                   blockTimestamp |-> Block,
                   transactionHash |-> event.hash]
        agent == getOrCreateAgent(event.agentId, Block)
    IN  /\ Len(handled) < MaxEvents
        /\ \A i \in 1..Len(handled) :
              <<handled[i].hash, handled[i].logIndex>>
                  # <<event.hash, event.logIndex>>
        /\ handled' = Append(handled, event)
        /\ HealthUpdated' = save(HealthUpdated, entity)
        /\ MonitoredAgent' =
              [MonitoredAgent EXCEPT ![event.agentId] =
                  [agent EXCEPT
                      !.healthScore = event.newScore,
                      !.lastCheckTimestamp = Block,
                      !.totalChecks = @ + 1,
                      !.successfulChecks =
                          IF event.success THEN @ + 1 ELSE @,
                      !.consecutiveFailures =
                          IF event.success THEN 0 ELSE @ + 1,
                      !.updatedAt = Block]]
        /\ UNCHANGED <<sideVars, routeVars, fetchVars, llmVars, proc, loopVars, failed,
                       pc, localVars, storeVars, stepVars, histVars, budget,
                       faults>>

\* ------------------------------------------------ HealthMonitor.sol
\* a transaction changed _healthData after the scan in progress, or the
\* last one that returned, had started
Disturbed == IF scan.pc = "idle" THEN scan ELSE [scan EXCEPT !.stable = FALSE]

\* registerForMonitoring: the owner stakes and the entry is overwritten
registerForMonitoring(agentId, e, stakeAmount) ==
    /\ ~chain[agentId].isMonitored
    /\ stakeAmount >= minStakeAmount
    /\ e # ""
    /\ chain' = [chain EXCEPT ![agentId] =
                    [isMonitored |-> TRUE, endpoint |-> e,
                     stakedAmount |-> stakeAmount, consecutiveFailures |-> 0]]
    /\ scan' = Disturbed
    /\ UNCHANGED <<trends, directory, graphVars, routeVars, fetchVars, llmVars, proc, loopVars, failed, pc, localVars, storeVars,
                   stepVars, histVars, budget, faults>>

\* disableMonitoring: the stake is returned, the endpoint stays in the entry
disableMonitoring(agentId) ==
    /\ chain[agentId].isMonitored
    /\ chain' = [chain EXCEPT ![agentId].isMonitored = FALSE,
                              ![agentId].stakedAmount = 0]
    /\ scan' = Disturbed
    /\ UNCHANGED <<trends, directory, graphVars, routeVars, fetchVars, llmVars, proc, loopVars, failed, pc, localVars, storeVars,
                   stepVars, histVars, budget, faults>>

\* _slashStake: slashAmount = (stakedAmount * percentage) / 100, and nothing
\* happens when it is 0
slashStake(data, percentage) ==
    [data EXCEPT !.stakedAmount = @ - ((@ * percentage) \div 100)]

\* updateHealth, as far as consecutiveFailures and stakedAmount go: a
\* success clears the failures; a failure counts, and from slashThreshold
\* failures in a row on each one slashes slashPercentage of the stake
updateHealth(agentId, success) ==
    /\ chain[agentId].isMonitored
    /\ chain[agentId].consecutiveFailures < MaxConsecutive
    /\ chain' = [chain EXCEPT ![agentId] =
          IF success THEN [@ EXCEPT !.consecutiveFailures = 0]
          ELSE LET data == [@ EXCEPT !.consecutiveFailures = @ + 1]
               IN  IF data.consecutiveFailures >= slashThreshold
                   THEN slashStake(data, slashPercentage)
                   ELSE data]
    /\ UNCHANGED <<scan, trends, directory, graphVars, routeVars, fetchVars, llmVars, proc, loopVars, failed, pc, localVars, storeVars,
                   stepVars, histVars, budget, faults>>

\* reportSuspicious: _slashStake(agentId, reason, 5)
reportSuspicious(agentId) ==
    /\ chain[agentId].isMonitored
    /\ chain' = [chain EXCEPT ![agentId] = slashStake(@, 5)]
    /\ UNCHANGED <<scan, trends, directory, graphVars, routeVars, fetchVars, llmVars, proc, loopVars, failed, pc, localVars, storeVars,
                   stepVars, histVars, budget, faults>>

\* addStake by the owner
addStake(agentId, amount) ==
    /\ chain[agentId].isMonitored
    /\ chain[agentId].stakedAmount + amount <= MaxStake
    /\ chain' = [chain EXCEPT ![agentId].stakedAmount = @ + amount]
    /\ UNCHANGED <<scan, trends, directory, graphVars, routeVars, fetchVars, llmVars, proc, loopVars, failed, pc, localVars, storeVars,
                   stepVars, histVars, budget, faults>>

\* ------------------------------------- getMonitoredAgentsFromContract
\* variant: the loop also reads the id ScanLimit
InScan_Inclusive(id) == id <= ScanLimit

\* the loop test id < 20
InScan(id) == id < ScanLimit

\* health.isMonitored && health.endpoint
Listed(h) == h.isMonitored /\ h.endpoint # ""

\* const agents = []; id = 0
StartScan ==
    /\ Alive
    /\ scan.pc \in {"idle", "done"}
    /\ scan' = [pc |-> "reading", id |-> 0, agents |-> <<>>, rejected |-> {},
                stable |-> TRUE]
    /\ UNCHANGED <<chain, trends, directory, graphVars, routeVars, fetchVars, llmVars, proc, loopVars, failed, pc, localVars, storeVars,
                   stepVars, histVars, budget, faults>>

\* one iteration: readContract getHealthData(id) returns the entry, or it
\* rejects and the empty catch block goes on with the next id
ReadHealthData ==
    /\ Alive
    /\ scan.pc = "reading"
    /\ InScan(scan.id)
    /\ LET id == scan.id
           h == IF id \in ChainIds THEN chain[id] ELSE NoHealthData
       IN  \/ scan' = [scan EXCEPT
                  !.id = id + 1,
                  !.agents = IF Listed(h)
                             THEN Append(@, [agentId |-> id, endpoint |-> h.endpoint])
                             ELSE @]
           \/ /\ id \in ChainIds
              /\ scan' = [scan EXCEPT !.id = id + 1, !.rejected = @ \cup {id}]
    /\ UNCHANGED <<chain, trends, directory, graphVars, routeVars, fetchVars, llmVars, proc, loopVars, failed, pc, localVars, storeVars,
                   stepVars, histVars, budget, faults>>

\* return agents
ReturnScan ==
    /\ Alive
    /\ scan.pc = "reading"
    /\ ~InScan(scan.id)
    /\ scan' = [scan EXCEPT !.pc = "done"]
    /\ UNCHANGED <<chain, trends, directory, graphVars, routeVars, fetchVars, llmVars, proc, loopVars, failed, pc, localVars, storeVars,
                   stepVars, histVars, budget, faults>>

\* getResponseTrends called on its own: const agent = await getAgent(agentId)
\* returns the stored document
GetAgent ==
    /\ Alive
    /\ trends.pc = "idle"
    /\ \E h \in Histories(MaxHistory) \cup {SlowingDown} :
          trends' = [trends EXCEPT !.pc = "read", !.history = h]
    /\ UNCHANGED <<chain, scan, directory, graphVars, routeVars, fetchVars, llmVars, proc, loopVars, failed, pc, localVars,
                   storeVars, stepVars, histVars, budget, faults>>

\* the rest of getResponseTrends, which awaits nothing
Trends ==
    /\ Alive
    /\ trends.pc = "read"
    /\ trends' = [trends EXCEPT !.pc = "done",
                                !.result = getResponseTrends(trends.history)]
    /\ UNCHANGED <<chain, scan, directory, graphVars, routeVars, fetchVars, llmVars, proc, loopVars, failed, pc, localVars,
                   storeVars, stepVars, histVars, budget, faults>>

\* ------------------------------------- the agents' rows, field by field
\* the contracts whose logs a receipt can hold
healthMonitor == "0xAB"
authToken == "0xcd"

\* what waitForTransactionReceipt answers with: it rejects, or the receipt of
\* a token transfer, of a registerForMonitoring of an agent (the token's
\* Transfer log first, then MonitoringEnabled with the id as its second
\* topic), or of a transaction without logs
Receipts ==
    {[settled |-> FALSE, logs |-> <<>>],
     [settled |-> TRUE, logs |-> <<>>],
     [settled |-> TRUE,
      logs |-> <<[address |-> authToken, topics |-> <<"Transfer", 0, 0>>]>>]}
    \cup {[settled |-> TRUE,
           logs |-> <<[address |-> authToken, topics |-> <<"Transfer", 0, 0>>],
                      [address |-> toLowerCase(healthMonitor),
                       topics |-> <<"MonitoringEnabled", a>>]>>] : a \in Agents}

\* receipt.logs.find(log => log.address.toLowerCase() ===
\*   healthMonitor.toLowerCase() && log.topics.length >= 2)
IsRelevant(log) ==
    /\ toLowerCase(log.address) = toLowerCase(healthMonitor)
    /\ Len(log.topics) >= 2

\* the log found, as a sequence of at most one element
relevantLog(receipt) ==
    LET found == {i \in DOMAIN receipt.logs : IsRelevant(receipt.logs[i])}
    IN  IF found = {} THEN <<>>
        ELSE <<receipt.logs[CHOOSE i \in found : \A j \in found : i <= j]>>

\* the agentId of the notify route: BigInt(relevantLog.topics[1]).toString()
\* if relevantLog && relevantLog.topics[1], and txHash otherwise; a topic
\* is kept as the number BigInt reads from it
NotifyAgentId(txHash, receipt) ==
    LET log == relevantLog(receipt)
    IN  IF log # <<>> THEN toString(log[1].topics[2]) ELSE txHash

\* the document the notify route passes to upsertAgent
SeedFields == [isMonitored |-> TRUE, lastDecision |-> "pending", stats |-> "seed"]

\* POST /agents/notify with its request and the receipt it waits for: 401,
\* 400 on a missing field, 500 when the wait rejects, and the upsert
PostNotifyReceipt(txHash, e, apiKey, receipt) ==
    /\ Alive
    /\ IF authenticateApiKey(apiKey) /\ txHash # "" /\ e # "" /\ receipt.settled
       THEN LET agentId == NotifyAgentId(txHash, receipt)
            IN  /\ directory' = [directory EXCEPT ![agentId] = SeedFields]
                /\ agents' = [a \in Agents |->
                                IF toString(a) = agentId
                                THEN [agents[a] EXCEPT !.present = TRUE]
                                ELSE agents[a]]
       ELSE UNCHANGED <<directory, agents>>
    /\ UNCHANGED <<chain, scan, trends, graphVars, routeVars, fetchVars, llmVars, proc, loopVars, failed, pc, localVars,
                   healthEvents, suspicious_counts, stepVars, histVars,
                   budget, faults>>

\* the document checkAndDecide passes to upsertAgent
CycleFields(a) ==
    [isMonitored |-> TRUE, lastDecision |-> decision[a].decision,
     stats |-> "chain"]

\* db.upsertAgent in checkAndDecide, with the fields it sets
UpsertAgentFields(a) ==
    /\ At(a, "upsertAgent")
    /\ \/ /\ agents' = [agents EXCEPT ![a].present = TRUE]
          /\ directory' = [directory EXCEPT ![toString(a)] = CycleFields(a)]
          /\ writes' = [writes EXCEPT ![a] = Append(@, "upsertAgent")]
          /\ Goes(a, "logHealthEvent")
       \/ /\ Throws(a)
          /\ UNCHANGED <<agents, writes, directory>>
    /\ UNCHANGED <<chain, scan, trends, graphVars, routeVars, fetchVars, llmVars, proc, loopVars, localVars, healthEvents, suspicious_counts,
                   txs, stepEvents, stepRun, stepNh, mined, run, nhRun, budget>>

\* db.deleteAgentData, with the fields of the agent's document
DeleteAgentFields(a) ==
    /\ Alive
    /\ agents' = [agents EXCEPT ![a] = NoAgent]
    /\ directory' = [directory EXCEPT ![toString(a)] = NoFields]
    /\ healthEvents' = [healthEvents EXCEPT ![a] = 0]
    /\ AgentCache' = AgentCache \ CacheRowsOf(a)
    /\ lastSet' = {h \in lastSet : ~MatchesAgentId(h.key, a)}
    /\ suspicious_counts' = [suspicious_counts EXCEPT ![a] = NoRow]
    /\ run' = [run EXCEPT ![a] = 0]
    /\ nhRun' = [nhRun EXCEPT ![a] = 0]
    /\ clean' = [clean EXCEPT ![a] =
                    IF pc[a] = "idle" /\ ~agents[a].present
                       /\ healthEvents[a] = 0
                       /\ ~suspicious_counts[a].present
                    THEN @ ELSE FALSE]
    /\ UNCHANGED <<chain, scan, trends, graphVars, routeVars, fetchVars, now, llm, calls, proc, loopVars, failed, pc, localVars,
                   stepVars, budget, faults>>

\* readContract getHealthData answered from the contract's entry;
\* if (!health.isMonitored) return
GetHealthDataOnChain(a) ==
    /\ At(a, "getHealthData")
    /\ \/ /\ health' = [health EXCEPT ![a] =
                          [read |-> TRUE, isMonitored |-> chain[a].isMonitored]]
          /\ Goes(a, IF chain[a].isMonitored THEN "fetchAgentCard" ELSE "done")
       \/ /\ Throws(a)
          /\ UNCHANGED health
    /\ UNCHANGED <<sideVars, graphVars, routeVars, fetchVars, llmVars, proc, loopVars, endpoint, pingResult, decision, count, storeVars, stepVars, run, nhRun,
                   budget>>

\* ------------------------------------------------- SIGINT / SIGTERM
\* process.on('SIGINT' | 'SIGTERM'): await db.disconnectDB() is entered
Signal ==
    /\ proc = "running"
    /\ proc' = "closing"
    /\ UNCHANGED <<sideVars, graphVars, routeVars, fetchVars, llmVars, loopVars, failed, pc, localVars, storeVars, stepVars,
                   histVars, budget, faults>>

\* client.close() has resolved: process.exit(0); what the process held in
\* memory is gone, the store and the chain keep what was written
Exit ==
    /\ proc = "closing"
    /\ proc' = "exited"
    /\ loopPc' = "discover"
    /\ monitored' = <<>>
    /\ subgraph' = NoResponse
    /\ idx' = 0
    /\ called' = <<>>
    /\ failed' = {}
    /\ pc' = [a \in Agents |-> "idle"]
    /\ health' = [a \in Agents |-> NoHealth]
    /\ endpoint' = [a \in Agents |-> NoEndpoint]
    /\ pingResult' = [a \in Agents |-> NoPing]
    /\ decision' = [a \in Agents |-> NoDecision]
    /\ count' = [a \in Agents |-> 0]
    /\ txs' = [a \in Agents |-> <<>>]
    /\ stepEvents' = [a \in Agents |-> 0]
    /\ writes' = [a \in Agents |-> <<>>]
    /\ mined' = [a \in Agents |-> 0]
    /\ stepRun' = [a \in Agents |-> 0]
    /\ stepNh' = [a \in Agents |-> 0]
    /\ llm' = NoCall
    /\ http' = NoOutcome
    /\ gets' = 0
    /\ card' = NoCard
    /\ UNCHANGED <<sideVars, graphVars, routeVars, now, AgentCache, lastSet, calls, registered, storeVars,
                   histVars, budget, faults>>

Next ==
    \/ getMonitoredAgentsFromSubgraph
    \/ getMonitoredAgents
    \/ getMonitoredAgentsFromContract
    \/ EndCycle
    \/ Wake
    \/ \E a \in Agents :
          \/ StartCheck(a)
          \/ Return(a)
          \/ GetHealthData(a)
          \/ FetchAgentCard(a)
          \/ PingEndpoint(a)
          \/ GetResponseTrends(a)
          \/ ValidateResponseContent(a)
          \/ FetchReputation(a)
          \/ MakeHealthDecision(a)
          \/ PushResponseHistory(a)
          \/ UpsertAgent(a)
          \/ LogHealthEvent(a)
          \/ UpdateHealth(a)
          \/ ResetSuspiciousCount(a)
          \/ IncrementSuspiciousCount(a)
          \/ MarkSlashed(a)
          \/ ReportSuspicious(a)
          \/ GetSuspiciousCount(a)

\* one registered agent, followed through long verdict sequences
Spec == Init /\ [][Next]_vars

InitCycle ==
    /\ InitProgram
    /\ \E c \in {0, Threshold - 1} : StoreLeftBy(c)
    /\ registered = Agents
    /\ budget = [a \in Agents |-> CycleVerdicts]

NextCycle ==
    \/ Next
    \/ \E a \in UnregisterIds : DeleteAgentData(a)

\* every agent registered and followed through short verdict sequences, with
\* the unregister route of the process
SpecCycle == InitCycle /\ [][NextCycle]_vars

InitSignal ==
    /\ InitProgram
    /\ \E c \in {0, Threshold - 1} : StoreLeftBy(c)
    /\ registered = {Tracked}
    /\ budget = [a \in Agents |-> CycleVerdicts]

NextSignal ==
    \/ Next
    \/ Signal
    \/ Exit

\* one registered agent, with the signal handlers of the process
SpecSignal == InitSignal /\ [][NextSignal]_vars

InitLLM ==
    /\ InitProgram
    /\ \E c \in {0, Threshold - 1} : StoreLeftBy(c)
    /\ registered = {Tracked}
    /\ budget = [a \in Agents |-> CycleVerdicts]

NextLLM ==
    \/ getMonitoredAgentsFromSubgraph
    \/ getMonitoredAgents
    \/ getMonitoredAgentsFromContract
    \/ EndCycle
    \/ Wake
    \/ CallGroq
    \/ SetCachedAgent
    \/ \E a \in Agents :
          \/ StartCheck(a)
          \/ Return(a)
          \/ GetHealthData(a)
          \/ FetchAgentCard(a)
          \/ PingEndpoint(a)
          \/ GetResponseTrends(a)
          \/ ResponseLookup(a)
          \/ FetchReputation(a)
          \/ HealthLookup(a)
          \/ PushResponseHistory(a)
          \/ UpsertAgent(a)
          \/ LogHealthEvent(a)
          \/ UpdateHealth(a)
          \/ ResetSuspiciousCount(a)
          \/ IncrementSuspiciousCount(a)
          \/ MarkSlashed(a)
          \/ ReportSuspicious(a)
          \/ GetSuspiciousCount(a)

\* one registered agent, with validateResponseContent and makeHealthDecision
\* followed step by step
SpecLLM == InitLLM /\ [][NextLLM]_vars

InitCache ==
    /\ InitProgram
    /\ \E c \in {0, Threshold - 1} : StoreLeftBy(c)
    /\ registered = {Tracked}
    /\ budget = [a \in Agents |-> CycleVerdicts]

NextCache ==
    \/ CallOperation
    \/ CallGroq
    \/ SetCachedAgent
    \/ Tick
    \/ Evict
    \/ \E a \in UnregisterIds : DeleteAgentData(a)

\* the LLM operations called on their own, with the cache, the clock, the
\* TTL index and the unregister route
SpecCache == InitCache /\ [][NextCache]_vars

InitFetch ==
    /\ InitProgram
    /\ \E c \in {0, Threshold - 1} : StoreLeftBy(c)
    /\ registered = {Tracked}
    /\ budget = [a \in Agents |-> CycleVerdicts]

NextFetch ==
    \/ getMonitoredAgentsFromSubgraph
    \/ getMonitoredAgents
    \/ getMonitoredAgentsFromContract
    \/ EndCycle
    \/ Wake
    \/ \E a \in Agents :
          \/ StartCheck(a)
          \/ Return(a)
          \/ GetHealthData(a)
          \/ ReadTokenURI(a)
          \/ GatewayGet(a)
          \/ AxiosGet(a)
          \/ GetResponseTrends(a)
          \/ ValidateResponseContent(a)
          \/ FetchReputation(a)
          \/ MakeHealthDecision(a)
          \/ PushResponseHistory(a)
          \/ UpsertAgent(a)
          \/ LogHealthEvent(a)
          \/ UpdateHealth(a)
          \/ ResetSuspiciousCount(a)
          \/ IncrementSuspiciousCount(a)
          \/ MarkSlashed(a)
          \/ ReportSuspicious(a)
          \/ GetSuspiciousCount(a)

\* one registered agent, with the requests of fetchAgentCard and
\* pingEndpoint followed one by one
SpecFetch == InitFetch /\ [][NextFetch]_vars

InitHistory ==
    /\ InitProgram
    /\ \/ \E k \in {0, HistorySlice - 1, HistorySlice} :
             StoreLeftByHealthy(k)
       \/ StoreLeftBy(Threshold - 1)
    /\ registered = {Tracked}
    /\ budget = [a \in Agents |-> CycleVerdicts]

NextHistory ==
    \/ Next
    \/ Tick
    \/ \E a \in UnregisterIds : DeleteAgentData(a)
    \/ \E a \in UnregisterIds : NotifyRegistered(a)

\* one registered agent with a long probe history, with the clock and the
\* notify and unregister routes of the process
SpecHistory == InitHistory /\ [][NextHistory]_vars

InitRoutes ==
    /\ InitProgram
    /\ \E c \in {0, Threshold - 1} : StoreLeftBy(c)
    /\ registered = {Tracked}
    /\ budget = [a \in Agents |-> CycleVerdicts]

NextRoutes ==
    \/ \E r \in Recipients, n \in Amounts, k \in ApiKeys : PostFaucet(r, n, k)
    \/ \E a \in UnregisterIds, k \in ApiKeys : PostUnregister(a, k)
    \/ \E a \in UnregisterIds, k \in ApiKeys : PostNotify(a, k)
    \/ \E k \in ApiKeys : PostPrepareOnboard(k)
    \/ CallGroq
    \/ SetCachedAgent

\* the four POST routes called from outside while nothing else runs
SpecRoutes == InitRoutes /\ [][NextRoutes]_vars

InitGraph ==
    /\ InitProgram
    /\ StoreLeftBy(0)
    /\ registered = {Tracked}
    /\ budget = [a \in Agents |-> CycleVerdicts]

NextGraph == \E event \in Events : handleHealthUpdated(event)

\* the subgraph mapping fed with the HealthUpdated logs of the chain
SpecGraph == InitGraph /\ [][NextGraph]_vars

InitChain ==
    /\ InitProgram
    /\ \E c \in {0, Threshold - 1} : StoreLeftBy(c)
    /\ registered = {Tracked}
    /\ budget = [a \in Agents |-> CycleVerdicts]

NextChain ==
    \/ Next
    \/ \E a \in Agents : Mine(a)

\* one registered agent, with the chain including the transactions of the
\* cycle at its own pace
SpecChain == InitChain /\ [][NextChain]_vars

\* ================================================================ claims
HasVerdict(a) == decision[a] # NoDecision
Verdict(a) == decision[a].decision
Finished(a) == pc[a] \in {"done", "caught"}
\* checkAndDecide ran to its end with a verdict, and no call of this agent's
\* passes ever rejected after a verdict
CleanDone(a) == pc[a] = "done" /\ HasVerdict(a) /\ clean[a]

\* the contract scan against a chain on which owners register and
\* unregister their tokens
InitScan ==
    /\ InitProgram
    /\ StoreLeftBy(0)
    /\ registered = {}
    /\ budget = [a \in Agents |-> 0]

NextScan ==
    \/ \E id \in ChainIds, e \in Endpoints, s \in StakeAmounts :
          registerForMonitoring(id, e, s)
    \/ \E id \in ChainIds : disableMonitoring(id)
    \/ StartScan
    \/ ReadHealthData
    \/ ReturnScan

SpecScan == InitScan /\ [][NextScan]_vars

\* getResponseTrends on every stored history of up to MaxHistory entries,
\* and on a longer one
InitTrends ==
    /\ InitProgram
    /\ StoreLeftBy(0)
    /\ registered = {}
    /\ budget = [a \in Agents |-> 0]

NextTrends ==
    \/ GetAgent
    \/ Trends

SpecTrends == InitTrends /\ [][NextTrends]_vars

\* one agent registered on chain once and monitored by the process up to
\* its next verdict, with the notify and unregister routes and the fields of
\* the agents' documents
InitDirectory ==
    /\ InitProgram
    /\ \E c \in {0, Threshold - 1} : StoreLeftBy(c)
    /\ registered = {Tracked}
    /\ budget = [a \in Agents |-> IF a = Tracked THEN 1 ELSE 0]

\* the steps of monitoringLoop and of checkAndDecide
MonitorDirectory ==
    \/ getMonitoredAgentsFromSubgraph
    \/ getMonitoredAgents
    \/ getMonitoredAgentsFromContract
    \/ EndCycle
    \/ Wake
    \/ \E a \in Agents :
          \/ StartCheck(a)
          \/ Return(a)
          \/ GetHealthDataOnChain(a)
          \/ FetchAgentCard(a)
          \/ PingEndpoint(a)
          \/ GetResponseTrends(a)
          \/ ValidateResponseContent(a)
          \/ FetchReputation(a)
          \/ MakeHealthDecision(a)
          \/ PushResponseHistory(a)
          \/ UpsertAgentFields(a)
          \/ LogHealthEvent(a)
          \/ UpdateHealth(a)
          \/ ResetSuspiciousCount(a)
          \/ IncrementSuspiciousCount(a)
          \/ MarkSlashed(a)
          \/ ReportSuspicious(a)
          \/ GetSuspiciousCount(a)

\* with the owner's transactions and the requests to the routes
NextDirectory ==
    \/ MonitorDirectory
    \/ \E e \in Endpoints, s \in StakeAmounts :
          /\ chain[Tracked] = NoHealthData
          /\ registerForMonitoring(Tracked, e, s)
    \/ disableMonitoring(Tracked)
    \/ \E h \in TxHashes \cup {""}, e \in Endpoints, k \in ApiKeys, r \in Receipts :
          PostNotifyReceipt(h, e, k, r)
    \/ \E a \in UnregisterIds : DeleteAgentFields(a)

SpecDirectory == InitDirectory /\ [][NextDirectory]_vars

\* the same, with the event loop running every continuation that is ready,
\* every awaited call returning or failing and the timer firing; the
\* transactions and requests from outside need not arrive
SpecDirectoryFair == SpecDirectory /\ WF_vars(MonitorDirectory)

\* the contract's entry of one token under the transactions of its owner
\* and of the updater
InitStake ==
    /\ InitProgram
    /\ StoreLeftBy(0)
    /\ registered = {}
    /\ budget = [a \in Agents |-> 0]

NextStake ==
    \/ \E e \in Endpoints, s \in StakeAmounts : registerForMonitoring(Tracked, e, s)
    \/ disableMonitoring(Tracked)
    \/ \E success \in BOOLEAN : updateHealth(Tracked, success)
    \/ reportSuspicious(Tracked)
    \/ \E amount \in StakeAmounts : addStake(Tracked, amount)

SpecStake == InitStake /\ [][NextStake]_vars

\* every agent registered and checked up to its next verdict, with the
\* unregister and notify routes; the event loop runs every continuation
\* that is ready, every awaited call returns or fails and the timer fires,
\* so the steps of the loop and of checkAndDecide are taken when they stay
\* possible; the requests from outside need not arrive
InitLive ==
    /\ InitProgram
    /\ StoreLeftBy(Threshold - 1)
    /\ registered = Agents
    /\ budget = [a \in Agents |-> 1]

NextLive ==
    \/ Next
    \/ \E a \in UnregisterIds : DeleteAgentData(a)
    \/ \E a \in UnregisterIds : NotifyRegistered(a)

SpecLive == InitLive /\ [][NextLive]_vars /\ WF_vars(Next)

C2_Original ==
    \A a \in Agents :
        Reported(a) => Verdict(a) = "suspicious" /\ stepRun[a] >= Threshold

\* ---------------------------------------------------------------- C3
\* C3: with every call succeeding, the k-th suspicious verdict on a failed
\* probe since the counter was last 0 submits, for k = 1..5, the single
\* transaction updateHealth(agent, responseTime, false) and leaves the
\* counter at k; for k = 6 it submits updateHealth and then
\* reportSuspicious, and the counter is 0 when the cycle ends.
C3_SixStrikes ==
    \A a \in Agents :
        (/\ CleanDone(a)
         /\ Verdict(a) = "suspicious"
         /\ ~pingResult[a].success) =>
            LET upd == UpdateHealthTx(a, pingResult[a].responseTimeMs, FALSE)
            IN  /\ stepRun[a] \in 1..Threshold
                /\ stepRun[a] < Threshold =>
                      /\ txs[a] = <<upd>>
                      /\ getSuspiciousCount(a) = stepRun[a]
                /\ stepRun[a] = Threshold =>
                      /\ txs[a] = <<upd, ReportSuspiciousTx(a, decision[a])>>
                      /\ getSuspiciousCount(a) = 0

\* the sixth cycle has ended: two transactions, counter back at 0
C3_Witness ==
    \E a \in Agents :
        /\ CleanDone(a)
        /\ Verdict(a) = "suspicious"
        /\ ~pingResult[a].success
        /\ stepRun[a] = Threshold
        /\ Len(txs[a]) = 2
        /\ getSuspiciousCount(a) = 0
        /\ suspicious_counts[a].totalSuspicious = Threshold

\* ---------------------------------------------------------------- C4
\* C4 as stated: whenever the verdict of a cycle is healthy, the agent's
\* consecutive-suspicious counter is 0 when that cycle ends.
C4_Original ==
    \A a \in Agents :
        (Finished(a) /\ Verdict(a) = "healthy") => getSuspiciousCount(a) = 0

\* ---------------------------------------------------------------- C5
\* C5 as stated: every cycle whose verdict is critical submits exactly one
\* chain transaction, updateHealth(a, 0, false), and no reportSuspicious,
\* and leaves the agent's suspicious counter row unchanged.
C5_Original ==
    /\ [](\A a \in Agents :
            (Finished(a) /\ Verdict(a) = "critical") =>
                txs[a] = <<UpdateHealthTx(a, 0, FALSE)>>)
    /\ [][\A a \in Agents :
            Verdict(a) = "critical" =>
                suspicious_counts'[a] = suspicious_counts[a]]_vars

C7_ArgsByVerdict ==
    \A a \in Agents :
        \A i \in 1..Len(txs[a]) :
            txs[a][i].fn = "updateHealth" =>
                /\ txs[a][i].agentId = a
                /\ Verdict(a) \in Verdicts
                /\ Verdict(a) = "healthy" =>
                      /\ txs[a][i].responseTime = pingResult[a].responseTimeMs
                      /\ txs[a][i].success = TRUE
                /\ Verdict(a) = "suspicious" =>
                      /\ txs[a][i].responseTime = pingResult[a].responseTimeMs
                      /\ txs[a][i].success = pingResult[a].success
                /\ Verdict(a) = "critical" =>
                      /\ txs[a][i].responseTime = 0
                      /\ txs[a][i].success = FALSE

\* a healthy verdict on a failed probe was written with success = true
C7_Witness ==
    \E a \in Agents :
        /\ Verdict(a) = "healthy"
        /\ ~pingResult[a].success
        /\ Len(txs[a]) = 1
        /\ txs[a][1] = UpdateHealthTx(a, pingResult[a].responseTimeMs, TRUE)

\* ---------------------------------------------------------------- C8
\* C8: two cycles are never in flight at once: discovery, the end of a
\* cycle and its sleep happen only while no checkAndDecide is running, the
\* loop is inside its for loop only while exactly the awaited call runs,
\* and at most one agent is being processed at any moment.
C8_OneAtATime ==
    /\ Cardinality({a \in Agents : pc[a] # "idle"}) <= 1
    /\ loopPc # "await" => \A a \in Agents : pc[a] = "idle"
    /\ loopPc = "await" =>
          /\ idx \in 1..Len(monitored)
          /\ pc[monitored[idx]] # "idle"

\* the second agent of the list is being processed, the first has returned
C8_Witness ==
    \E a, b \in Agents :
        /\ a # b
        /\ called = <<b, a>>
        /\ pc[a] \in PostVerdict
        /\ pc[b] = "idle"
        /\ healthEvents[b] > 0

\* ---------------------------------------------------------------- C9
\* C9 as stated: after SIGINT or SIGTERM the process starts no further
\* cycle and no further checkAndDecide, lets the checkAndDecide in flight
\* finish, and only then closes the store connection and exits: the
\* connection is never being closed, or closed, while an agent is
\* mid-pipeline.
C9_Original ==
    /\ [](proc # "running" => \A a \in Agents : pc[a] = "idle")
    /\ [][(proc # "running" /\ proc' # "exited") =>
            /\ loopPc = "sleep" => loopPc' = "sleep"
            /\ \A a \in Agents : pc[a] = "idle" => pc'[a] = "idle"]_vars

\* --------------------------------------------------------------- C10
\* C10: a failure of one agent's checkAndDecide is contained in that
\* agent's iteration: the step that fails changes neither the loop's
\* position and list nor any stored row or chain transaction of another
\* agent, and when the cycle goes to sleep checkAndDecide has been called
\* for every agent of the discovered list, in order.
C10_Contained ==
    /\ [](loopPc = "sleep" => called = monitored)
    /\ [](\A a \in failed : \E i \in 1..Len(called) : called[i] = a)
    /\ [][\A a \in Agents :
            (pc[a] # "caught" /\ pc'[a] = "caught") =>
                /\ UNCHANGED <<loopPc, monitored, idx, called>>
                /\ \A b \in Agents \ {a} :
                      /\ agents'[b] = agents[b]
                      /\ healthEvents'[b] = healthEvents[b]
                      /\ suspicious_counts'[b] = suspicious_counts[b]
                      /\ txs'[b] = txs[b]
                      /\ pc'[b] = pc[b]]_vars

\* the first agent's call failed; the second was still called and logged
\* its health event before the cycle went to sleep
C10_Witness ==
    /\ loopPc = "sleep"
    /\ Len(monitored) = 2
    /\ called = monitored
    /\ monitored[1] \in failed
    /\ monitored[2] \notin failed
    /\ healthEvents[monitored[2]] = 1

\* --------------------------------------------------------------- C11
\* C11 as stated: getMonitoredAgents takes the contract scan if and only
\* if the indexer query raised or returned a malformed response; every
\* well-formed indexer response is returned as the cycle's agent set
\* without scanning the chain.
C11_Original ==
    /\ [](loopPc = "fallback" => subgraph.kind \in {"raised", "malformed"})
    /\ [][(loopPc = "subgraphDone" /\ loopPc' # loopPc) =>
            IF subgraph.kind = "list"
            THEN loopPc' = "next" /\ monitored' = subgraph.agents
            ELSE loopPc' = "fallback"]_vars

\* C11 amended: getMonitoredAgents takes the contract scan if and only if
\* the indexer query raised, returned a malformed response, or returned a
\* well-formed empty list; every well-formed non-empty response is
\* returned as the cycle's agent set without scanning the chain.
C11_FallbackOnEmpty ==
    /\ [](loopPc = "fallback" =>
            \/ subgraph.kind \in {"raised", "malformed"}
            \/ subgraph.kind = "list" /\ subgraph.agents = <<>>)
    /\ [][(loopPc = "subgraphDone" /\ loopPc' # loopPc) =>
            IF subgraph.kind = "list" /\ Len(subgraph.agents) > 0
            THEN loopPc' = "next" /\ monitored' = subgraph.agents
            ELSE loopPc' = "fallback"]_vars

\* the indexer answered with a well-formed empty list and the contract
\* scan is about to run
C11_Witness ==
    /\ loopPc = "fallback"
    /\ subgraph = [kind |-> "list", agents |-> <<>>]

\* --------------------------------------------------------------- C12
\* C12: when the third attempt of makeHealthDecision's model call fails,
\* the operation returns the safe default -- healthy / none if the probe
\* succeeded, suspicious / error otherwise -- and writes no cache entry;
\* the pipeline then acts on the default as on any verdict: with every
\* later call succeeding, a default on a successful probe submits exactly
\* updateHealth(agent, responseTime, true) and leaves the counter at 0.
C12_DefaultOnExhaustion ==
    /\ [][\A a \in Agents :
            (/\ llm.pc = "callGroq"
             /\ llm.op = "health"
             /\ llm.caller = a
             /\ llm'.pc = "idle") =>
                /\ llm.attempt = maxRetries
                /\ llm'.origin = "exhausted"
                /\ llm'.writes = 0
                /\ AgentCache' = AgentCache
                /\ decision'[a] =
                      IF pingResult[a].success
                      THEN [decision |-> "healthy", failureType |-> "none"]
                      ELSE [decision |-> "suspicious", failureType |-> "error"]
                /\ pc'[a] = "pushResponseHistory"]_vars
    /\ [](\A a \in Agents :
            (/\ llm.origin = "exhausted"
             /\ llm.op = "health"
             /\ llm.caller = a
             /\ HasVerdict(a)) =>
                /\ decision[a] = llm.value
                /\ (CleanDone(a) /\ pingResult[a].success) =>
                      /\ txs[a] = <<UpdateHealthTx(a,
                                        pingResult[a].responseTimeMs, TRUE)>>
                      /\ getSuspiciousCount(a) = 0
                      /\ stepEvents[a] = 1)

\* three attempts failed on a successful probe of an agent whose counter
\* stood at 5: the cycle ended with updateHealth(a, t, true), the counter
\* reset and nothing cached
C12_Witness ==
    \E a \in Agents :
        /\ llm.origin = "exhausted"
        /\ llm.op = "health"
        /\ llm.caller = a
        /\ CleanDone(a)
        /\ pingResult[a].success
        /\ Verdict(a) = "healthy"
        /\ txs[a] = <<UpdateHealthTx(a, pingResult[a].responseTimeMs, TRUE)>>
        /\ suspicious_counts[a].present
        /\ getSuspiciousCount(a) = 0
        /\ \A doc \in AgentCache : doc.key # HealthKey(a, pingResult[a])

\* --------------------------------------------------------------- C13
\* C13 as stated: a model reply that parses as JSON but violates the
\* operation's schema (here a decision outside healthy / suspicious /
\* critical) counts as a failed attempt: the attempt is retried, and the
\* reply is never returned by callGroqStructured, never written to the
\* cache and never acted upon by checkAndDecide.
C13_Original ==
    /\ (llm.pc = "setCachedAgent" /\ llm.op = "health") =>
          llm.result \in Decisions
    /\ \A doc \in AgentCache :
          doc.key[1][1] = "health" => doc.data \in Decisions
    /\ \A a \in Agents :
          HasVerdict(a) => decision[a] \in Decisions /\ Verdict(a) \in Verdicts

C15_TtlBoundary ==
    \A h \in lastSet :
        getCachedAgent(h.key) =
            IF now - h.at < Agent_CACHE_TTL_SECONDS THEN h.data ELSE Null

\* exactly 300 s after the write the row is still stored and the lookup
\* misses
C15_Witness ==
    \E h \in lastSet :
        /\ now - h.at = Agent_CACHE_TTL_SECONDS
        /\ \E doc \in AgentCache : doc.key = h.key /\ doc.data = h.data
        /\ getCachedAgent(h.key) = Null

\* --------------------------------------------------------------- C16
\* C16: when deleteAgentData(id) has completed, with no other writer at
\* work, getAgent(id) is null, the agent has no health events,
\* getSuspiciousCount(id) is 0 and the cache holds no row whose key
\* matches (^|_)id($|_).
C16_DeletedEverywhere ==
    [][\A a \in UnregisterIds :
          DeleteAgentData(a) =>
              /\ agents'[a] = NoAgent
              /\ healthEvents'[a] = 0
              /\ ~suspicious_counts'[a].present
              /\ suspicious_counts'[a].consecutiveSuspicious = 0
              /\ \A doc \in AgentCache' : ~MatchesAgentId(doc.key, a)
              /\ \A doc \in AgentCache :
                    ~MatchesAgentId(doc.key, a) => doc \in AgentCache']_vars

\* the entry of validateOnboardingData for the name bot_<id>_v2, written
\* and not yet expired, is gone together with the agent's rows
C16_Witness ==
    /\ llm.pc = "idle"
    /\ llm.origin = "model"
    /\ llm.key = OnboardKeyNamed(Tracked)
    /\ now = 0
    /\ \A doc \in AgentCache : ~MatchesAgentId(doc.key, Tracked)
    /\ agents[Tracked] = NoAgent
    /\ healthEvents[Tracked] = 0
    /\ suspicious_counts[Tracked] = NoRow

\* --------------------------------------------------------------- C17
\* C17 as stated: deleteAgentData(id) deletes every cache row whose key
\* contains the agent id -- health:<id>:<success>:<ms> and narrative:<id>
\* among them -- so that no row written for the agent before the deletion
\* is left to answer a later makeHealthDecision or generateTrustNarrative.
C17_Original ==
    [][\A a \in UnregisterIds :
          DeleteAgentData(a) =>
              \A doc \in AgentCache' :
                  /\ doc.key # NarrativeKey(a)
                  /\ \A p \in PingResults : doc.key # HealthKey(a, p)]_vars

\* --------------------------------------------------------------- C18
\* C18: whatever pushResponseHistory, upsertAgent, notify-registered and
\* notify-unregistered operations have run, an agent's stored probe history
\* has between 0 and 20 entries, in the order of their insertion, which is
\* chronological; only a push or the deletion of the agent changes it; a
\* push onto a history of fewer than 20 entries appends, and a push onto a
\* history of 20 evicts exactly the oldest entry and keeps the other 19 in
\* place before the new one.
C18_BoundedOrdered ==
    /\ [](\A a \in Agents :
            LET h == agents[a].responseHistory
            IN  /\ Len(h) \in 0..HistorySlice
                /\ \A i, j \in 1..Len(h) :
                      i < j => /\ h[i].n < h[j].n
                               /\ h[i].timestamp <= h[j].timestamp)
    /\ [][\A a \in Agents :
            LET h == agents[a].responseHistory
                g == agents'[a].responseHistory
                pushed == pc[a] = "pushResponseHistory"
                          /\ pc'[a] = "upsertAgent"
            IN  /\ pushed =>
                      /\ g[Len(g)].timestamp = now
                      /\ \A i \in 1..Len(h) : g[Len(g)] # h[i]
                      /\ IF Len(h) < HistorySlice
                         THEN /\ Len(g) = Len(h) + 1
                              /\ SubSeq(g, 1, Len(h)) = h
                         ELSE /\ Len(g) = HistorySlice
                              /\ SubSeq(g, 1, HistorySlice - 1) =
                                    SubSeq(h, 2, HistorySlice)
                /\ (~pushed /\ g # h) => agents'[a] = NoAgent]_vars

\* a push onto a full history has evicted the oldest entry: the stored
\* entries are the 2nd to the 21st pushed, the last one pushed after the
\* clock had advanced
C18_Witness ==
    \E a \in Agents :
        LET h == agents[a].responseHistory
        IN  /\ Len(h) = HistorySlice
            /\ h[1].n = 2
            /\ h[HistorySlice].n = HistorySlice + 1
            /\ h[HistorySlice].timestamp > h[1].timestamp
            /\ pc[a] = "done"

\* --------------------------------------------------------------- C19
\* C19: pingEndpoint never raises: whatever happens to its request it
\* returns a result, whose success is true if and only if a response with
\* a status in [200, 300) arrived, with the body of that response as data;
\* on a transport error, a timeout or any other status success is false
\* and data is null.
C19_ProbeTotal ==
    /\ [][\A a \in Agents :
            (pc[a] = "pingEndpoint" /\ pc'[a] # pc[a]) =>
                /\ pc'[a] = "getResponseTrends"
                /\ http'.kind \in {"response", "error", "timeout"}
                /\ pingResult'[a].responseTimeMs \in ResponseTimes]_vars
    /\ [](\A a \in Agents :
            pc[a] = "getResponseTrends" =>
                LET r == pingResult[a]
                    answered == /\ http.kind = "response"
                                /\ http.status \in 200..299
                IN  /\ r.success <=> answered
                    /\ answered => r.data = http.data
                    /\ ~answered => r.data = NoBody)

\* a response with status 300 arrived with a body: success is false and
\* the data is null
C19_Witness ==
    \E a \in Agents :
        /\ pc[a] = "getResponseTrends"
        /\ http = [kind |-> "response", status |-> 300, data |-> "body"]
        /\ pingResult[a].success = FALSE
        /\ pingResult[a].data = NoBody

\* --------------------------------------------------------------- C20
\* C20: fetchAgentCard never raises: it contacts the gateways in a fixed
\* order -- the configured one first, if there is one, then
\* gateway.pinata.cloud, cloudflare-ipfs.com and dweb.link --, returns the
\* body of the first one that answers with a 2xx status and contacts none
\* after it; it returns null, having contacted no gateway, when tokenURI
\* is empty or the chain read fails, and null when every gateway failed.
C20_FirstGatewayWins ==
    /\ [][\A a \in Agents :
            (pc[a] = "fetchAgentCard" /\ pc'[a] # pc[a]) =>
                /\ pc'[a] \in {"pingEndpoint", "done"}
                /\ card'.pc = "returned"]_vars
    /\ [](LET public == <<"gateway.pinata.cloud", "cloudflare-ipfs.com",
                          "dweb.link">>
              n == Len(card.contacted)
              ok(status) == status \in 200..299
          IN  card.pc \in {"gateways", "returned"} =>
                /\ card.gateways \in
                      {<<>>, public, <<"PINATA_GATEWAY_URL">> \o public}
                /\ n <= Len(card.gateways)
                /\ card.contacted = SubSeq(card.gateways, 1, n)
                /\ Len(card.answers) = n
                /\ \A k \in 1..(n - 1) : ~ok(card.answers[k])
                /\ card.pc = "gateways" =>
                      /\ card.i = n + 1
                      /\ \A k \in 1..n : ~ok(card.answers[k])
                /\ card.pc = "returned" =>
                      /\ card.cause \in {"raised", "empty", "nohash",
                                         "fetched", "allFailed"}
                      /\ card.cause \in {"raised", "empty", "nohash"} =>
                            card.result = NoBody /\ n = 0
                      /\ card.cause = "allFailed" =>
                            /\ card.result = NoBody
                            /\ card.contacted = card.gateways
                            /\ \A k \in 1..n : ~ok(card.answers[k])
                      /\ card.cause = "fetched" =>
                            /\ n >= 1
                            /\ ok(card.answers[n])
                            /\ card.result[1] = card.contacted[n]
                            /\ card.result[2] \in Bodies)

\* the configured gateway answered 300, gateway.pinata.cloud answered 200:
\* its body is returned and the two later gateways were not contacted
C20_Witness ==
    /\ card.pc = "returned"
    /\ Len(card.gateways) = 4
    /\ card.contacted = <<"PINATA_GATEWAY_URL", "gateway.pinata.cloud">>
    /\ card.answers = <<300, 200>>
    /\ card.result = <<"gateway.pinata.cloud", "body">>

\* ---------------------------------------------------------------- C21
\* C21: the faucet serves a recipient address at most once, whatever the
\* case of its letters: a successful transfer leaves a claim record for the
\* address, and no transfer to the address is submitted after it.
C21_Original ==
    \A i \in 1..Len(transfers) :
        transfers[i].status = "success" =>
            /\ hasFaucetClaim(transfers[i].to)
            /\ \A j \in (i + 1)..Len(transfers) :
                  toLowerCase(transfers[j].to) # toLowerCase(transfers[i].to)

\* ---------------------------------------------------------------- C22
\* C22: with API_SECRET_KEY configured, a request to any of the four POST
\* routes that does not carry the configured key changes no row of the
\* store and submits no chain transaction.
C22_Original ==
    [][\A k \in ApiKeys \ {API_SECRET_KEY} :
          (\/ \E r \in Recipients, n \in Amounts : PostFaucet(r, n, k)
           \/ \E a \in UnregisterIds : PostUnregister(a, k)
           \/ \E a \in UnregisterIds : PostNotify(a, k)
           \/ PostPrepareOnboard(k))
          => UNCHANGED <<storeVars, AgentCache, faucet_claims, transfers,
                         txs>>]_vars

C24_Original ==
    \A a \in Agents :
        (/\ pc[a] # "idle"
         /\ count[a] >= Threshold
         /\ getSuspiciousCount(a) = 0) =>
            \E i \in 1..Len(txs[a]) : txs[a][i].fn = "reportSuspicious"

\* ---------------------------------------------------------------- C25
\* C25: incrementSuspiciousCount is one indivisible step: the increment, the
\* test against the threshold, the reset and the stamp of lastSlashedAt
\* happen together, so the counter row never shows a value at or above the
\* threshold, and the call returns true exactly when the incremented value
\* has reached the threshold.
C25_Original ==
    /\ [](\A a \in Agents :
            suspicious_counts[a].consecutiveSuspicious < Threshold)
    /\ [][\A a \in Agents :
            (pc[a] = "incrementSuspiciousCount" /\ pc'[a] # "caught") =>
                /\ count'[a] = suspicious_counts[a].consecutiveSuspicious + 1
                /\ pc'[a] = "reportSuspicious" <=> count'[a] >= Threshold
                /\ pc'[a] = "reportSuspicious" =>
                      /\ suspicious_counts'[a].consecutiveSuspicious = 0
                      /\ suspicious_counts'[a].lastSlashedAt]_vars

\* ---------------------------------------------------------------- C26
\* C26: the writes of one cycle of checkAndDecide are made in the order
\* pushResponseHistory, upsertAgent, logHealthEvent, first chain write; no
\* chain transaction is submitted before the health event of the cycle has
\* been appended.
C26_WriteOrder ==
    \A a \in Agents :
        LET order == <<"pushResponseHistory", "upsertAgent",
                       "logHealthEvent", "updateHealth">>
            w == writes[a]
        IN  /\ \A i \in 1..Len(w) : i <= Len(order) => w[i] = order[i]
            /\ Len(txs[a]) > 0 =>
                  /\ stepEvents[a] = 1
                  /\ Len(w) >= Len(order)
                  /\ Len(w) = Len(txs[a]) + Len(order) - 1
            /\ Len(txs[a]) = 0 => Len(w) < Len(order)

\* a cycle has made its three store writes and its chain write
C26_Witness ==
    \E a \in Agents :
        /\ pc[a] = "done"
        /\ writes[a] = <<"pushResponseHistory", "upsertAgent",
                         "logHealthEvent", "updateHealth">>
        /\ Len(agents[a].responseHistory) > 0
        /\ stepEvents[a] = 1
        /\ Len(txs[a]) = 1

\* ---------------------------------------------------------------- C27
\* C27: each chain submission waits for its receipt before checkAndDecide
\* goes on: once the pipeline is past a writeContract the transaction is in
\* a block, and reportSuspicious is not submitted before updateHealth is.
C27_Original ==
    \A a \in Agents :
        /\ pc[a] \in {"resetSuspiciousCount", "incrementSuspiciousCount",
                      "markSlashed", "reportSuspicious",
                      "getSuspiciousCount", "done"}
              => mined[a] = Len(txs[a])
        /\ Len(txs[a]) >= 2 => mined[a] >= 1

\* ---------------------------------------------------------------- C28
\* C28: when getHealthData reports isMonitored = false, or no endpoint is
\* known for the agent, checkAndDecide returns at once: it makes no probe,
\* calls no LLM operation, writes nothing to the store and submits no
\* chain transaction.
C28_EarlyReturn ==
    /\ [](\A a \in Agents :
            ((health[a].read /\ ~health[a].isMonitored) \/ endpoint[a] = "")
                => /\ pc[a] = "done"
                   /\ pingResult[a] = NoPing
                   /\ decision[a] = NoDecision
                   /\ count[a] = 0
                   /\ writes[a] = <<>>
                   /\ stepEvents[a] = 0
                   /\ txs[a] = <<>>)
    /\ [][\A a \in Agents :
            ((health'[a].read /\ ~health'[a].isMonitored)
             \/ endpoint'[a] = "")
                => UNCHANGED <<storeVars, AgentCache, llm, txs>>]_vars

\* a monitored agent for which no endpoint was found: the cycle is over
C28_Witness ==
    \E a \in Agents :
        /\ pc[a] = "done"
        /\ health[a].read
        /\ health[a].isMonitored
        /\ endpoint[a] = ""

\* ---------------------------------------------------------------- C29
\* C29: one call of an LLM operation makes at most 3 completion requests:
\* none on a cache hit; it stops at the first request that succeeds; a
\* failed first request is followed by a wait of 2 s and a failed second
\* one by a wait of 4 s; after a failed third request no further request is
\* made and the operation returns its safe default.
C29_ThreeRequests ==
    /\ llm.made <= maxRetries
    /\ llm.waits = [i \in 1..Len(llm.waits) |-> 2000 * i]
    /\ llm.pc = "callGroq" =>
          llm.made = llm.attempt - 1 /\ Len(llm.waits) = llm.made
    /\ llm.origin = "cache" => llm.made = 0
    /\ llm.origin \in {"model", "writeFailed"} \/ llm.pc = "setCachedAgent" =>
          llm.made \in 1..maxRetries /\ Len(llm.waits) = llm.made - 1
    /\ llm.origin = "exhausted" =>
          /\ llm.made = maxRetries
          /\ llm.waits = <<2000, 4000>>
          /\ \E probe \in BOOLEAN : llm.value = SafeDefault(llm.op, probe)

\* an operation whose third request succeeded, after waits of 2 s and 4 s
C29_Witness ==
    /\ llm.origin = "model"
    /\ llm.made = 3
    /\ llm.waits = <<2000, 4000>>
    /\ llm.value \in OpReplies(llm.op)

\* ---------------------------------------------------------------- C30
\* C30: one call of pingEndpoint issues exactly one HTTP GET, whatever its
\* outcome: a success, a response with a 5xx status, or a timeout.
C30_Original ==
    \A a \in Agents : pc[a] = "getResponseTrends" => gets = 1

\* ---------------------------------------------------------------- C31
\* the token ids a finished scan returned, and the ids it read that the
\* contract holds as monitored
ScanIds == {scan.agents[i].agentId : i \in DOMAIN scan.agents}
MonitoredInRange == {id \in ChainIds : id < 20 /\ chain[id].isMonitored}

\* C31 as stated: the scan of the fallback path returns exactly the ids in
\* 0..19 whose on-chain isMonitored flag is true, each with its on-chain
\* endpoint: none left out, none added.
C31_Original ==
    (scan.pc = "done" /\ scan.stable) =>
        /\ ScanIds = MonitoredInRange
        /\ \A i \in DOMAIN scan.agents :
              scan.agents[i].endpoint = chain[scan.agents[i].agentId].endpoint

\* C31 amended: with the contract's entries unchanged during the scan, the
\* scan returns, in ascending order and each with its on-chain endpoint,
\* exactly the ids in 0..19 whose isMonitored flag is true and whose
\* getHealthData read did not reject; an id whose read rejected is left
\* out without an error.
C31_ReadableMonitored ==
    (scan.pc = "done" /\ scan.stable) =>
        /\ ScanIds = MonitoredInRange \ scan.rejected
        /\ \A i, j \in DOMAIN scan.agents :
              i < j => scan.agents[i].agentId < scan.agents[j].agentId
        /\ \A i \in DOMAIN scan.agents :
              scan.agents[i].endpoint = chain[scan.agents[i].agentId].endpoint

\* a scan over a chain with monitored ids at both ends of the range and
\* beyond it returned without one of them, whose read had rejected
C31_Witness ==
    /\ scan.pc = "done" /\ scan.stable
    /\ chain[0].isMonitored /\ chain[19].isMonitored /\ chain[20].isMonitored
    /\ ~chain[1].isMonitored
    /\ scan.rejected = {0}
    /\ ScanIds = {19}

\* ---------------------------------------------------------------- C32
\* the successful entries of the history getResponseTrends read, and the
\* sums over their response times
IsSuccess(h) == h.success
Successes == SelectSeq(trends.history, IsSuccess)
SuccessSum == Sum([i \in DOMAIN Successes |-> Successes[i].responseTimeMs])
SuccessSquares ==
    Sum([i \in DOMAIN Successes |->
            Successes[i].responseTimeMs * Successes[i].responseTimeMs])

\* the population variance of the successful samples,
\* (n * sum of squares - square of the sum) / n^2, is the variance returned
PopulationVariance ==
    LET n == Len(Successes)
        v == trends.result.variance
    IN  v.num * (n * n) = (n * SuccessSquares - SuccessSum * SuccessSum) * v.den

\* C32: getResponseTrends on a degenerate history: fewer than 3 entries,
\* successful or not, give {0, 0, stable}; 3 or more entries none of them
\* successful give {0, 0, degrading}; 3 or more entries with at most 3
\* successful ones give stable; and whenever there are 3 or more entries
\* and a successful one, avgTime and stdDev are the mean and the population
\* deviation of the successful samples alone.
C32_Degenerate ==
    trends.pc = "done" =>
        LET h == trends.history
            n == Len(Successes)
            r == trends.result
        IN  /\ Len(h) < 3 =>
                  r = [avgTime |-> Zero, variance |-> NoVariance,
                       recentTrend |-> "stable"]
            /\ (Len(h) >= 3 /\ n = 0) =>
                  r = [avgTime |-> Zero, variance |-> NoVariance,
                       recentTrend |-> "degrading"]
            /\ (Len(h) >= 3 /\ n \in 1..3) => r.recentTrend = "stable"
            /\ (Len(h) >= 3 /\ n >= 1) =>
                  /\ r.avgTime = Divide(SuccessSum, n)
                  /\ PopulationVariance

\* a history of two successful probes of 10 and 20 ms around failed ones
\* gave stable with a mean of 15 ms
C32_Witness ==
    /\ trends.pc = "done"
    /\ Len(trends.history) >= 4
    /\ \E i \in DOMAIN trends.history : ~trends.history[i].success
    /\ Len(Successes) = 2
    /\ SuccessSum = 30
    /\ trends.result.recentTrend = "stable"
    /\ trends.result.avgTime = Divide(15, 1)
    /\ trends.result.variance.num > 0

\* ---------------------------------------------------------------- C33
\* the sums of the last three successful response times and of the earlier
\* ones
RecentSum ==
    Sum([i \in 1..3 |-> Successes[Len(Successes) - 3 + i].responseTimeMs])
OlderSum == SuccessSum - RecentSum

\* C33 as stated: for every history with more than 3 successful samples the
\* trend is improving iff mean(recent) < 0.8 * mean(older), degrading iff
\* mean(recent) > 1.2 * mean(older) and stable otherwise, the boundaries
\* themselves being stable; and stdDev is the population deviation.
\* With m older samples, mean(recent) < 0.8 * mean(older) is
\* 5 * m * RecentSum < 12 * OlderSum, and mean(recent) > 1.2 * mean(older)
\* is 5 * m * RecentSum > 18 * OlderSum.
C33_Original ==
    (trends.pc = "done" /\ Len(Successes) > 3) =>
        LET m == Len(Successes) - 3
        IN  /\ trends.result.recentTrend =
                  IF 5 * m * RecentSum < 12 * OlderSum THEN "improving"
                  ELSE IF 5 * m * RecentSum > 18 * OlderSum THEN "degrading"
                  ELSE "stable"
            /\ PopulationVariance

\* ---------------------------------------------------------------- C34
\* C34 as stated: every document of agents that upsertAgent wrote, from
\* checkAndDecide or from the notify route, is kept under the decimal
\* string of a token id; none is created under a key of another form.
C34_Original ==
    \A k \in DirKeys :
        directory[k] # NoFields => \E id \in ChainIds : k = toString(id)

\* ---------------------------------------------------------------- C37
\* C37 as stated: once a document holds a verdict written by a monitoring
\* cycle, no step sets its lastDecision back to pending or replaces its
\* healthScore, totalChecks and successfulChecks by the seed values; a step
\* of deleteAgentData removes the document and leaves neither.
C37_Original ==
    [][\A k \in DirKeys :
          directory[k].lastDecision \in Verdicts =>
              /\ directory'[k].lastDecision # "pending"
              /\ directory'[k].stats # "seed"]_vars

\* ---------------------------------------------------------------- C38
\* C38 as stated: if at the start of a cycle the contract's isMonitored
\* flag of an agent is false and stays false (the agent was registered once
\* and disabled), then at the end of that cycle, and of every later one,
\* the agent's document does not have isMonitored = true written by a
\* monitoring cycle.
C38_Original ==
    []((/\ loopPc = "discover"
        /\ ~chain[Tracked].isMonitored
        /\ chain[Tracked].endpoint # "")
       => [](loopPc = "sleep" =>
                \/ ~directory[toString(Tracked)].isMonitored
                \/ directory[toString(Tracked)].lastDecision = "pending"))

\* ---------------------------------------------------------------- C35
\* C35 as stated: an LLM operation returns its safe default only when all
\* maxRetries completion requests failed; once a request returned a reply
\* that parses, the operation returns that reply, also when the cache
\* write that follows it rejects.
C35_Original ==
    /\ [][(llm.pc = "setCachedAgent" /\ llm'.pc # "setCachedAgent") =>
             llm'.value = llm.result]_vars
    /\ [](llm.origin \in {"exhausted", "writeFailed"} =>
             /\ llm.made = maxRetries
             /\ llm.origin = "exhausted")

\* ---------------------------------------------------------------- C36
\* deleteAgentData ran for a after the suspicious verdict of the check in
\* flight: the verdict counted, and the count is gone without a slash
ErasedInFlight(a) ==
    /\ HasVerdict(a)
    /\ Verdict(a) = "suspicious"
    /\ stepRun[a] > 0
    /\ run[a] = 0
    /\ ~Reported(a)

\* C36 as stated: when deleteAgentData(id) ran while a checkAndDecide for id
\* was in flight, past its isMonitored check, then once the check has
\* finished there is no agent row, probe history, health event or counter
\* row for id: no write of the check re-creates data of the deleted agent.
C36_Original ==
    \A a \in UnregisterIds :
        (Finished(a) /\ ErasedInFlight(a)) =>
            /\ agents[a] = NoAgent
            /\ healthEvents[a] = 0
            /\ suspicious_counts[a] = NoRow

\* ---------------------------------------------------------------- C39
\* C39 as stated: every updateHealth transaction, whatever its arguments
\* and the failures counted before it, leaves the agent's stakedAmount as
\* it was; only reportSuspicious reduces it.
C39_Original ==
    [][\A id \in ChainIds, success \in BOOLEAN :
          updateHealth(id, success) =>
              chain'[id].stakedAmount = chain[id].stakedAmount]_vars

\* ---------------------------------------------------------------- C40
\* C40: with every awaited call returning or failing and the timer firing,
\* every monitoring cycle that starts reaches its sleep, and every sleep is
\* followed by the start of the next cycle -- whatever the indexer and the
\* contract scan answer and whichever checks end in their catch block.
C40_CyclesGoOn ==
    /\ (loopPc = "discover") ~> (loopPc = "sleep")
    /\ (loopPc = "sleep") ~> (loopPc = "discover")

\* a cycle in which the checks of both agents ended in the catch block of
\* checkAndDecide has reached its sleep
C40_Witness ==
    /\ loopPc = "sleep"
    /\ Len(monitored) = 2
    /\ failed = Agents
    /\ \A a \in Agents : pc[a] = "idle"

====
